---- MODULE Spec2Model ----
(***************************************************************************)
(* MCPXcode: an MCP server whose tools wrap xcrun / xctrace / xcodebuild.   *)
(* Every tool builds an argument vector, runs one child process with       *)
(* subprocess.run(..., check=True) and translates the result.              *)
(*                                                                         *)
(* Text is modelled character by character: a Python str is a sequence of  *)
(* one-character strings, an argument vector a sequence of such texts.     *)
(* Optional[T] is a sequence of length 0 (None) or 1 (the value).          *)
(***************************************************************************)
EXTENDS Integers, Sequences, FiniteSets

(***************************************************************************)
(* Bounds of the model.                                                    *)
(***************************************************************************)
\* longest exhaustively enumerated stdout text
MaxTextLen == 3
\* exit statuses 0..MaxExit
MaxExit == 1
\* largest number of entries of a map-valued or list-valued parameter
MaxEntries == 2
\* number of calls handled at the same time
MaxCalls == 2

(***************************************************************************)
(* Python str / list primitives used by the handlers.                      *)
(***************************************************************************)
None == <<>>

Some(v) == <<v>>

\* a parameter with a default value: the default stands in for an omitted argument
Default(o, d) == IF o = None THEN d ELSE o[1]

\* the test `is not None` in place of truthiness
TruthyInt_present(o) == o # None

\* truthiness of an Optional[int]: `if time_limit:`
TruthyInt(o) == o # None /\ o[1] # 0

\* truthiness of an Optional[str | dict | list]: `if destination:`
TruthySeq(o) == o # None /\ o[1] # <<>>

\* the characters str.strip() removes
Whitespace == {" ", "\t", "\n", "\r", "\f"}

RECURSIVE LStrip(_)
LStrip(s) == IF s # <<>> /\ Head(s) \in Whitespace THEN LStrip(Tail(s)) ELSE s

RECURSIVE RStrip(_)
RStrip(s) ==
    IF s # <<>> /\ s[Len(s)] \in Whitespace THEN RStrip(SubSeq(s, 1, Len(s) - 1)) ELSE s

\* str.strip()
Strip(s) == RStrip(LStrip(s))

\* the line boundaries of str.splitlines() ("\r\n" counts as one)
LineBreaks == {"\n", "\r", "\f"}

RECURSIVE SplitFrom(_, _, _)
SplitFrom(s, i, cur) ==
    IF i > Len(s) THEN (IF cur = <<>> THEN <<>> ELSE <<cur>>)
    ELSE IF s[i] \in LineBreaks
         THEN LET w == IF s[i] = "\r" /\ i < Len(s) /\ s[i + 1] = "\n" THEN 2 ELSE 1
              IN  <<cur>> \o SplitFrom(s, i + w, <<>>)
         ELSE SplitFrom(s, i + 1, Append(cur, s[i]))

\* str.split("\n") in place of splitlines(): a final empty element is kept
SplitLines_split(s) ==
    SplitFrom(s, 1, <<>>)
    \o (IF s = <<>> \/ s[Len(s)] \in LineBreaks THEN << <<>> >> ELSE <<>>)

\* str.splitlines()
SplitLines(s) == SplitFrom(s, 1, <<>>)

RECURSIVE Concat(_)
Concat(parts) == IF parts = <<>> THEN <<>> ELSE parts[1] \o Concat(Tail(parts))

\* "".join(parts): the separator left out
Join_nosep(sep, parts) == Concat(parts)

RECURSIVE Join(_, _)
\* sep.join(parts)
Join(sep, parts) ==
    IF parts = <<>> THEN <<>>
    ELSE IF Len(parts) = 1 THEN parts[1]
    ELSE parts[1] \o sep \o Join(sep, Tail(parts))

Digits == <<"0", "1", "2", "3", "4", "5", "6", "7", "8", "9">>

RECURSIVE NatToStr(_)
NatToStr(n) ==
    IF n < 10 THEN <<Digits[n + 1]>> ELSE NatToStr(n \div 10) \o <<Digits[(n % 10) + 1]>>

\* str(n) of an int
IntToStr(n) == IF n < 0 THEN <<"-">> \o NatToStr(0 - n) ELSE NatToStr(n)

\* f"{x}" of an Optional[str]: None formats as the text None
FormatOpt(o) == IF o = None THEN <<"N","o","n","e">> ELSE o[1]

(***************************************************************************)
(* json.loads.  A decoded document is a record with one field naming its    *)
(* Python type: [dict |-> <<key, value>> pairs in insertion order],         *)
(* [list |-> items], [str |-> text], [int |-> n], [bool |-> b],             *)
(* [null |-> TRUE].  A parse step yields [ok, val, pos]; pos is the index   *)
(* after the value.  Escapes, fractions and exponents are not modelled: the *)
(* inputs hold no backslash, "." or "e" inside a number.                    *)
(***************************************************************************)
JsonWs == {" ", "\t", "\n", "\r"}

RECURSIVE SkipWs(_, _)
SkipWs(s, i) == IF i <= Len(s) /\ s[i] \in JsonWs THEN SkipWs(s, i + 1) ELSE i

JsonFail == [ok |-> FALSE]

JsonOk(v, p) == [ok |-> TRUE, val |-> v, pos |-> p]

\* characters a JSON string may not hold unescaped
JsonControl == {"\t", "\n", "\r", "\f"}

RECURSIVE ScanString(_, _, _)
\* s[i..] after the opening quote; acc is the text read so far
ScanString(s, i, acc) ==
    IF i > Len(s) THEN JsonFail
    ELSE IF s[i] = "\"" THEN JsonOk([str |-> acc], i + 1)
    ELSE IF s[i] \in JsonControl THEN JsonFail
    ELSE ScanString(s, i + 1, Append(acc, s[i]))

DigitChars == {Digits[k] : k \in 1..10}

DigitVal(c) == CHOOSE k \in 0..9 : Digits[k + 1] = c

RECURSIVE ScanDigits(_, _, _)
ScanDigits(s, i, n) ==
    IF i <= Len(s) /\ s[i] \in DigitChars
    THEN ScanDigits(s, i + 1, 10 * n + DigitVal(s[i]))
    ELSE JsonOk([int |-> n], i)

\* -? (0 | [1-9][0-9]*)
ScanNumber(s, i) ==
    LET neg == s[i] = "-"
        j == IF neg THEN i + 1 ELSE i
    IN  IF j > Len(s) \/ s[j] \notin DigitChars THEN JsonFail
        ELSE LET r == IF s[j] = "0" THEN JsonOk([int |-> 0], j + 1) ELSE ScanDigits(s, j, 0)
             IN  IF neg THEN JsonOk([int |-> 0 - r.val.int], r.pos) ELSE r

StartsAt(s, i, w) == i + Len(w) - 1 <= Len(s) /\ SubSeq(s, i, i + Len(w) - 1) = w

\* dict[key] = value: an existing key keeps its place and takes the new value
DictSet(items, key, value) ==
    IF \E k \in 1..Len(items) : items[k][1] = key
    THEN [k \in 1..Len(items) |-> IF items[k][1] = key THEN <<key, value>> ELSE items[k]]
    ELSE Append(items, <<key, value>>)

RECURSIVE ParseValue(_, _)
RECURSIVE ParseElements(_, _, _)
RECURSIVE ParseMembers(_, _, _)

\* s[i] is the first character of a value
ParseValue(s, i) ==
    IF i > Len(s) THEN JsonFail
    ELSE IF s[i] = "\"" THEN ScanString(s, i + 1, <<>>)
    ELSE IF s[i] = "-" \/ s[i] \in DigitChars THEN ScanNumber(s, i)
    ELSE IF StartsAt(s, i, <<"t","r","u","e">>) THEN JsonOk([bool |-> TRUE], i + 4)
    ELSE IF StartsAt(s, i, <<"f","a","l","s","e">>) THEN JsonOk([bool |-> FALSE], i + 5)
    ELSE IF StartsAt(s, i, <<"n","u","l","l">>) THEN JsonOk([null |-> TRUE], i + 4)
    ELSE IF s[i] = "["
         THEN LET j == SkipWs(s, i + 1)
              IN  IF j <= Len(s) /\ s[j] = "]" THEN JsonOk([list |-> <<>>], j + 1)
                  ELSE ParseElements(s, j, <<>>)
    ELSE IF s[i] = "{"
         THEN LET j == SkipWs(s, i + 1)
              IN  IF j <= Len(s) /\ s[j] = "}" THEN JsonOk([dict |-> <<>>], j + 1)
                  ELSE ParseMembers(s, j, <<>>)
    ELSE JsonFail

\* the elements of an array from s[i] on, after "[" or ","
ParseElements(s, i, acc) ==
    LET v == ParseValue(s, i) IN
    IF ~v.ok THEN JsonFail
    ELSE LET j == SkipWs(s, v.pos)
             items == Append(acc, v.val)
         IN  IF j > Len(s) THEN JsonFail
             ELSE IF s[j] = "]" THEN JsonOk([list |-> items], j + 1)
             ELSE IF s[j] = "," THEN ParseElements(s, SkipWs(s, j + 1), items)
             ELSE JsonFail

\* the members of an object from s[i] on, after "{" or ","
ParseMembers(s, i, acc) ==
    IF i > Len(s) \/ s[i] # "\"" THEN JsonFail
    ELSE LET k == ScanString(s, i + 1, <<>>) IN
         IF ~k.ok THEN JsonFail
         ELSE LET c == SkipWs(s, k.pos) IN
              IF c > Len(s) \/ s[c] # ":" THEN JsonFail
              ELSE LET v == ParseValue(s, SkipWs(s, c + 1)) IN
                   IF ~v.ok THEN JsonFail
                   ELSE LET j == SkipWs(s, v.pos)
                            items == DictSet(acc, k.val.str, v.val)
                        IN  IF j > Len(s) THEN JsonFail
                            ELSE IF s[j] = "}" THEN JsonOk([dict |-> items], j + 1)
                            ELSE IF s[j] = "," THEN ParseMembers(s, SkipWs(s, j + 1), items)
                            ELSE JsonFail

\* json.loads(s): [ok |-> FALSE] stands for JSONDecodeError
JsonLoads(s) ==
    LET v == ParseValue(s, SkipWs(s, 1)) IN
    IF ~v.ok THEN JsonFail
    ELSE IF SkipWs(s, v.pos) <= Len(s) THEN JsonFail
    ELSE [ok |-> TRUE, val |-> v.val]

IsDict(d) == "dict" \in DOMAIN d

HasKey(d, key) == \E k \in 1..Len(d.dict) : d.dict[k][1] = key

\* dict[key] of a key the dict holds
DictAt(d, key) == d.dict[CHOOSE k \in 1..Len(d.dict) : d.dict[k][1] = key][2]

(***************************************************************************)
(* subprocess.run(cmd, capture_output=capture, text=True, check=True).      *)
(* p = [exit, out, err] is what the child process did.  Without             *)
(* capture_output the child writes to the inherited streams and the result  *)
(* (and the CalledProcessError built from it) holds None for both.          *)
(***************************************************************************)
Run(capture, p) ==
    [returncode |-> p.exit,
     stdout |-> IF capture THEN Some(p.out) ELSE None,
     stderr |-> IF capture THEN Some(p.err) ELSE None]

\* check=False: the return code is ignored
CalledProcessError_never(r) == FALSE

\* check=True raises CalledProcessError on a non-zero return code
CalledProcessError(r) == r.returncode # 0

\* a handler returns v
Return(v) == [kind |-> "return", value |-> v]

\* raise Exception(msg)
Raise(msg) == [kind |-> "raise", exc |-> "Exception", msg |-> msg]

\* an exception of class exc that no except clause of the handler catches
Uncaught(exc) == [kind |-> "raise", exc |-> exc]

\* a decode error caught and reported like a process failure
ReturnJson_masked(text) ==
    LET d == JsonLoads(text) IN IF d.ok THEN Return(d.val) ELSE Raise(<<"F","a","i","l","e","d"," ","t","o"," ","d","e","c","o","d","e",":"," ">>)

\* return json.loads(result.stdout)
ReturnJson(text) ==
    LET d == JsonLoads(text) IN IF d.ok THEN Return(d.val) ELSE Uncaught("JSONDecodeError")

(***************************************************************************)
(* main.py: the simulator and SDK tools.  X_cmd is the argument vector,     *)
(* X the outcome of the handler once its process has ended as p.            *)
(***************************************************************************)
get_mcpxcode == Return(<<"H","e","l","l","o"," ","M","C","P","X","c","o","d","e"," ",":",")"," ","M","C","P","X","c","o","d","e"," ","i","s"," ","M","C","P"," ","s","e","r","v","e","r"," ","f","o","r"," ","X","c","o","d","e",".">>)

list_devices_cmd == <<<<"x","c","r","u","n">>, <<"s","i","m","c","t","l">>, <<"l","i","s","t">>, <<"d","e","v","i","c","e","s">>, <<"-","-","j","s","o","n">>>>

list_devices(p) ==
    LET r == Run(TRUE, p) IN
    IF CalledProcessError(r) THEN Raise(<<"F","a","i","l","e","d"," ","t","o"," ","l","i","s","t"," ","d","e","v","i","c","e","s",":"," ">> \o FormatOpt(r.stderr))
    ELSE ReturnJson(r.stdout[1])

boot_device_cmd(device_id) == <<<<"x","c","r","u","n">>, <<"s","i","m","c","t","l">>, <<"b","o","o","t">>, device_id>>

\* boot_device with the stderr text left out of its failure message
boot_device_no_stderr(device_id, p) ==
    LET r == Run(TRUE, p) IN
    IF CalledProcessError(r) THEN Raise(<<"F","a","i","l","e","d"," ","t","o"," ","b","o","o","t"," ","d","e","v","i","c","e">>)
    ELSE Return(<<"S","u","c","c","e","s","s","f","u","l","l","y"," ","b","o","o","t","e","d"," ","d","e","v","i","c","e"," ">> \o device_id)

\* boot_device answering with what the child printed
boot_device_echo(device_id, p) ==
    LET r == Run(TRUE, p) IN
    IF CalledProcessError(r) THEN Raise(<<"F","a","i","l","e","d"," ","t","o"," ","b","o","o","t"," ","d","e","v","i","c","e",":"," ">> \o FormatOpt(r.stderr))
    ELSE Return(r.stdout[1])

boot_device(device_id, p) ==
    LET r == Run(TRUE, p) IN
    IF CalledProcessError(r) THEN Raise(<<"F","a","i","l","e","d"," ","t","o"," ","b","o","o","t"," ","d","e","v","i","c","e",":"," ">> \o FormatOpt(r.stderr))
    ELSE Return(<<"S","u","c","c","e","s","s","f","u","l","l","y"," ","b","o","o","t","e","d"," ","d","e","v","i","c","e"," ">> \o device_id)

shutdown_device_cmd(device_id) == <<<<"x","c","r","u","n">>, <<"s","i","m","c","t","l">>, <<"s","h","u","t","d","o","w","n">>, device_id>>

shutdown_device(device_id, p) ==
    LET r == Run(TRUE, p) IN
    IF CalledProcessError(r) THEN Raise(<<"F","a","i","l","e","d"," ","t","o"," ","s","h","u","t","d","o","w","n"," ","d","e","v","i","c","e",":"," ">> \o FormatOpt(r.stderr))
    ELSE Return(<<"S","u","c","c","e","s","s","f","u","l","l","y"," ","s","h","u","t","d","o","w","n"," ","d","e","v","i","c","e"," ">> \o device_id)

install_app_cmd(device_id, app_path) == <<<<"x","c","r","u","n">>, <<"s","i","m","c","t","l">>, <<"i","n","s","t","a","l","l">>, device_id, app_path>>

install_app(device_id, app_path, p) ==
    LET r == Run(TRUE, p) IN
    IF CalledProcessError(r) THEN Raise(<<"F","a","i","l","e","d"," ","t","o"," ","i","n","s","t","a","l","l"," ","a","p","p",":"," ">> \o FormatOpt(r.stderr))
    ELSE Return(<<"S","u","c","c","e","s","s","f","u","l","l","y"," ","i","n","s","t","a","l","l","e","d"," ","a","p","p"," ","a","t"," ">> \o app_path \o <<" ","o","n"," ","d","e","v","i","c","e"," ">> \o device_id)

launch_app_cmd(device_id, bundle_id) == <<<<"x","c","r","u","n">>, <<"s","i","m","c","t","l">>, <<"l","a","u","n","c","h">>, device_id, bundle_id>>

launch_app(device_id, bundle_id, p) ==
    LET r == Run(TRUE, p) IN
    IF CalledProcessError(r) THEN Raise(<<"F","a","i","l","e","d"," ","t","o"," ","l","a","u","n","c","h"," ","a","p","p",":"," ">> \o FormatOpt(r.stderr))
    ELSE Return(<<"S","u","c","c","e","s","s","f","u","l","l","y"," ","l","a","u","n","c","h","e","d"," ","a","p","p"," ">> \o bundle_id \o <<" ","o","n"," ","d","e","v","i","c","e"," ">> \o device_id)

get_sdk_path_cmd == <<<<"x","c","r","u","n">>, <<"-","-","s","h","o","w","-","s","d","k","-","p","a","t","h">>>>

get_sdk_path(p) ==
    LET r == Run(TRUE, p) IN
    IF CalledProcessError(r) THEN Raise(<<"F","a","i","l","e","d"," ","t","o"," ","g","e","t"," ","S","D","K"," ","p","a","t","h",":"," ">> \o FormatOpt(r.stderr))
    ELSE Return(Strip(r.stdout[1]))

get_sdk_version_cmd == <<<<"x","c","r","u","n">>, <<"-","-","s","h","o","w","-","s","d","k","-","v","e","r","s","i","o","n">>>>

get_sdk_version(p) ==
    LET r == Run(TRUE, p) IN
    IF CalledProcessError(r) THEN Raise(<<"F","a","i","l","e","d"," ","t","o"," ","g","e","t"," ","S","D","K"," ","v","e","r","s","i","o","n",":"," ">> \o FormatOpt(r.stderr))
    ELSE Return(Strip(r.stdout[1]))

get_sdk_platform_path_cmd == <<<<"x","c","r","u","n">>, <<"-","-","s","h","o","w","-","s","d","k","-","p","l","a","t","f","o","r","m","-","p","a","t","h">>>>

get_sdk_platform_path(p) ==
    LET r == Run(TRUE, p) IN
    IF CalledProcessError(r)
    THEN Raise(<<"F","a","i","l","e","d"," ","t","o"," ","g","e","t"," ","S","D","K"," ","p","l","a","t","f","o","r","m"," ","p","a","t","h",":"," ">> \o FormatOpt(r.stderr))
    ELSE Return(Strip(r.stdout[1]))

find_developer_tool_cmd(tool_name) == <<<<"x","c","r","u","n">>, <<"-","f">>, tool_name>>

find_developer_tool(tool_name, p) ==
    LET r == Run(TRUE, p) IN
    IF CalledProcessError(r)
    THEN Raise(<<"F","a","i","l","e","d"," ","t","o"," ","f","i","n","d"," ","t","o","o","l"," ">> \o tool_name \o <<":"," ">> \o FormatOpt(r.stderr))
    ELSE Return(Strip(r.stdout[1]))

run_tool_with_sdk_cmd(tool_name, sdk_name, extra) ==
    <<<<"x","c","r","u","n">>, <<"-","-","s","d","k">>, sdk_name, tool_name>> \o extra

run_tool_with_sdk(tool_name, sdk_name, p) ==
    LET r == Run(TRUE, p) IN
    IF CalledProcessError(r)
    THEN Raise(<<"F","a","i","l","e","d"," ","t","o"," ","r","u","n"," ">> \o tool_name \o <<" ","w","i","t","h"," ","S","D","K"," ">> \o sdk_name \o <<":"," ">>
               \o FormatOpt(r.stderr))
    ELSE Return(r.stdout[1])

(***************************************************************************)
(* xcrun.py: xcodebuild, altool, swift-demangle, otool and nm wrappers.     *)
(***************************************************************************)
xcodebuild_list_sdks_cmd == <<<<"x","c","r","u","n">>, <<"x","c","o","d","e","b","u","i","l","d">>, <<"-","s","h","o","w","s","d","k","s">>, <<"-","j","s","o","n">>>>

xcodebuild_list_sdks(p) ==
    LET r == Run(TRUE, p) IN
    IF CalledProcessError(r) THEN Raise(<<"F","a","i","l","e","d"," ","t","o"," ","l","i","s","t"," ","S","D","K","s",":"," ">> \o FormatOpt(r.stderr))
    ELSE ReturnJson(r.stdout[1])

xcodebuild_list_schemes_cmd(project_path) ==
    <<<<"x","c","r","u","n">>, <<"x","c","o","d","e","b","u","i","l","d">>, <<"-","l","i","s","t">>, <<"-","p","r","o","j","e","c","t">>, project_path, <<"-","j","s","o","n">>>>

\* data.get(key, default); a value that is no dict has no get: AttributeError
DictGet(d, key, default) ==
    IF ~IsDict(d) THEN Uncaught("AttributeError")
    ELSE IF HasKey(d, key) THEN Return(DictAt(d, key))
    ELSE Return(default)

xcodebuild_list_schemes(p) ==
    LET r == Run(TRUE, p) IN
    IF CalledProcessError(r) THEN Raise(<<"F","a","i","l","e","d"," ","t","o"," ","l","i","s","t"," ","s","c","h","e","m","e","s",":"," ">> \o FormatOpt(r.stderr))
    ELSE LET data == JsonLoads(r.stdout[1]) IN
         IF ~data.ok THEN Uncaught("JSONDecodeError")
         ELSE LET project == DictGet(data.val, <<"p","r","o","j","e","c","t">>, [dict |-> <<>>]) IN
              IF project.kind = "raise" THEN project
              ELSE DictGet(project.value, <<"s","c","h","e","m","e","s">>, [list |-> <<>>])

xcodebuild_build_cmd(project_path, scheme, configuration, sdk, destination) ==
    <<<<"x","c","r","u","n">>, <<"x","c","o","d","e","b","u","i","l","d">>, <<"-","p","r","o","j","e","c","t">>, project_path, <<"-","s","c","h","e","m","e">>, scheme,
      <<"-","c","o","n","f","i","g","u","r","a","t","i","o","n">>, configuration, <<"-","s","d","k">>, sdk>>
    \o (IF TruthySeq(destination) THEN <<<<"-","d","e","s","t","i","n","a","t","i","o","n">>, destination[1]>> ELSE <<>>)

\* xcodebuild_build returning result.stdout.strip()
xcodebuild_build_stripped(p) ==
    LET r == Run(TRUE, p) IN
    IF CalledProcessError(r) THEN Raise(<<"B","u","i","l","d"," ","f","a","i","l","e","d",":"," ">> \o FormatOpt(r.stderr))
    ELSE Return(Strip(r.stdout[1]))

xcodebuild_build(p) ==
    LET r == Run(TRUE, p) IN
    IF CalledProcessError(r) THEN Raise(<<"B","u","i","l","d"," ","f","a","i","l","e","d",":"," ">> \o FormatOpt(r.stderr))
    ELSE Return(r.stdout[1])

altool_validate_app_cmd(app_path, username, password_keychain_item) ==
    <<<<"x","c","r","u","n">>, <<"a","l","t","o","o","l">>, <<"-","-","v","a","l","i","d","a","t","e","-","a","p","p">>, <<"-","f">>, app_path, <<"-","u">>, username,
      <<"-","p">>, <<"@","k","e","y","c","h","a","i","n",":">> \o password_keychain_item>>

altool_validate_app(p) ==
    LET r == Run(TRUE, p) IN
    IF CalledProcessError(r) THEN Raise(<<"A","p","p"," ","v","a","l","i","d","a","t","i","o","n"," ","f","a","i","l","e","d",":"," ">> \o FormatOpt(r.stderr))
    ELSE Return(r.stdout[1])

altool_upload_app_cmd(app_path, username, password_keychain_item) ==
    <<<<"x","c","r","u","n">>, <<"a","l","t","o","o","l">>, <<"-","-","u","p","l","o","a","d","-","a","p","p">>, <<"-","f">>, app_path, <<"-","u">>, username,
      <<"-","p">>, <<"@","k","e","y","c","h","a","i","n",":">> \o password_keychain_item>>

altool_upload_app(p) ==
    LET r == Run(TRUE, p) IN
    IF CalledProcessError(r) THEN Raise(<<"A","p","p"," ","u","p","l","o","a","d"," ","f","a","i","l","e","d",":"," ">> \o FormatOpt(r.stderr))
    ELSE Return(r.stdout[1])

swift_symbols_cmd(binary_path) == <<<<"x","c","r","u","n">>, <<"s","w","i","f","t","-","d","e","m","a","n","g","l","e">>, binary_path>>

swift_symbols(p) ==
    LET r == Run(TRUE, p) IN
    IF CalledProcessError(r) THEN Raise(<<"F","a","i","l","e","d"," ","t","o"," ","e","x","t","r","a","c","t"," ","s","y","m","b","o","l","s",":"," ">> \o FormatOpt(r.stderr))
    ELSE Return(SplitLines(r.stdout[1]))

otool_headers_cmd(binary_path) == <<<<"x","c","r","u","n">>, <<"o","t","o","o","l">>, <<"-","h">>, binary_path>>

otool_headers(p) ==
    LET r == Run(TRUE, p) IN
    IF CalledProcessError(r) THEN Raise(<<"F","a","i","l","e","d"," ","t","o"," ","s","h","o","w"," ","h","e","a","d","e","r","s",":"," ">> \o FormatOpt(r.stderr))
    ELSE Return(SplitLines(r.stdout[1]))

otool_libraries_cmd(binary_path) == <<<<"x","c","r","u","n">>, <<"o","t","o","o","l">>, <<"-","L">>, binary_path>>

otool_libraries(p) ==
    LET r == Run(TRUE, p) IN
    IF CalledProcessError(r)
    THEN Raise(<<"F","a","i","l","e","d"," ","t","o"," ","s","h","o","w"," ","l","i","n","k","e","d"," ","l","i","b","r","a","r","i","e","s",":"," ">> \o FormatOpt(r.stderr))
    ELSE Return(SplitLines(r.stdout[1]))

nm_symbols_cmd(binary_path) == <<<<"x","c","r","u","n">>, <<"n","m">>, binary_path>>

nm_symbols(p) ==
    LET r == Run(TRUE, p) IN
    IF CalledProcessError(r) THEN Raise(<<"F","a","i","l","e","d"," ","t","o"," ","s","h","o","w"," ","s","y","m","b","o","l","s",":"," ">> \o FormatOpt(r.stderr))
    ELSE Return(SplitLines(r.stdout[1]))

(***************************************************************************)
(* xctrace.py.  The recording wrappers run their process without            *)
(* capture_output and return None.                                          *)
(***************************************************************************)
xctrace_list_devices_cmd == <<<<"x","c","t","r","a","c","e">>, <<"l","i","s","t">>, <<"d","e","v","i","c","e","s">>, <<"-","-","j","s","o","n">>>>

xctrace_list_devices(p) ==
    LET r == Run(TRUE, p) IN
    IF CalledProcessError(r) THEN Raise(<<"F","a","i","l","e","d"," ","t","o"," ","l","i","s","t"," ","d","e","v","i","c","e","s",":"," ">> \o FormatOpt(r.stderr))
    ELSE ReturnJson(r.stdout[1])

list_templates_cmd == <<<<"x","c","t","r","a","c","e">>, <<"l","i","s","t">>, <<"t","e","m","p","l","a","t","e","s">>, <<"-","-","j","s","o","n">>>>

list_templates(p) ==
    LET r == Run(TRUE, p) IN
    IF CalledProcessError(r) THEN Raise(<<"F","a","i","l","e","d"," ","t","o"," ","l","i","s","t"," ","t","e","m","p","l","a","t","e","s",":"," ">> \o FormatOpt(r.stderr))
    ELSE ReturnJson(r.stdout[1])

\* the flag added without the test `if time_limit:`
TimeLimitArgs_always(time_limit) ==
    <<<<"-","-","t","i","m","e","-","l","i","m","i","t">>, IF time_limit = None THEN <<"N","o","n","e">> ELSE IntToStr(time_limit[1])>>

\* if time_limit: cmd.extend(['--time-limit', str(time_limit)])
TimeLimitArgs(time_limit) ==
    IF TruthyInt(time_limit) THEN <<<<"-","-","t","i","m","e","-","l","i","m","i","t">>, IntToStr(time_limit[1])>> ELSE <<>>

record_cmd(template, device_id, app_bundle_id, output_path, time_limit) ==
    <<<<"x","c","t","r","a","c","e">>, <<"r","e","c","o","r","d">>, <<"-","-","t","e","m","p","l","a","t","e">>, template, <<"-","-","d","e","v","i","c","e">>, device_id,
      <<"-","-","t","a","r","g","e","t">>, app_bundle_id, <<"-","-","o","u","t","p","u","t">>, output_path>>
    \o TimeLimitArgs(time_limit)

record(p) ==
    LET r == Run(FALSE, p) IN
    IF CalledProcessError(r) THEN Raise(<<"F","a","i","l","e","d"," ","t","o"," ","r","e","c","o","r","d"," ","t","r","a","c","e",":"," ">> \o FormatOpt(r.stderr))
    ELSE Return(None)

export_cmd(trace_path, output_path, type) ==
    <<<<"x","c","t","r","a","c","e">>, <<"e","x","p","o","r","t">>, <<"-","-","i","n","p","u","t">>, trace_path, <<"-","-","o","u","t","p","u","t">>, output_path,
      <<"-","-","t","y","p","e">>, type>>

export(p) ==
    LET r == Run(FALSE, p) IN
    IF CalledProcessError(r) THEN Raise(<<"F","a","i","l","e","d"," ","t","o"," ","e","x","p","o","r","t"," ","t","r","a","c","e",":"," ">> \o FormatOpt(r.stderr))
    ELSE Return(None)

RECURSIVE KeyValues(_)
KeyValues(items) ==
    IF items = <<>> THEN <<>>
    ELSE <<items[1][1] \o <<"=">> \o items[1][2]>> \o KeyValues(Tail(items))

\* the flag given once, before all the key=value tokens
FlagPairs_once(flag, items) == IF items = <<>> THEN <<>> ELSE <<flag>> \o KeyValues(items)

RECURSIVE FlagPairs(_, _)
\* for key, value in items: cmd.extend([flag, f"{key}={value}"])
FlagPairs(flag, items) ==
    IF items = <<>> THEN <<>>
    ELSE <<flag, items[1][1] \o <<"=">> \o items[1][2]>> \o FlagPairs(flag, Tail(items))

record_with_options_cmd(template, device_id, app_bundle_id, output_path, time_limit, template_options, launch_args, env_vars) ==
    <<<<"x","c","t","r","a","c","e">>, <<"r","e","c","o","r","d">>, <<"-","-","t","e","m","p","l","a","t","e">>, template, <<"-","-","d","e","v","i","c","e">>, device_id,
      <<"-","-","t","a","r","g","e","t">>, app_bundle_id, <<"-","-","o","u","t","p","u","t">>, output_path>>
    \o TimeLimitArgs(time_limit)
    \o (IF TruthySeq(template_options)
        THEN FlagPairs(<<"-","-","t","e","m","p","l","a","t","e","-","o","p","t","i","o","n">>, template_options[1]) ELSE <<>>)
    \o (IF TruthySeq(launch_args)
        THEN <<<<"-","-","l","a","u","n","c","h","-","a","r","g","s">>, Join(<<" ">>, launch_args[1])>> ELSE <<>>)
    \o (IF TruthySeq(env_vars) THEN FlagPairs(<<"-","-","s","e","t","e","n","v">>, env_vars[1]) ELSE <<>>)

record_with_options(p) ==
    LET r == Run(FALSE, p) IN
    IF CalledProcessError(r) THEN Raise(<<"F","a","i","l","e","d"," ","t","o"," ","r","e","c","o","r","d"," ","t","r","a","c","e",":"," ">> \o FormatOpt(r.stderr))
    ELSE Return(None)

attach_cmd(pid, template, output_path, time_limit) ==
    <<<<"x","c","t","r","a","c","e">>, <<"a","t","t","a","c","h">>, <<"-","-","p","i","d">>, IntToStr(pid), <<"-","-","t","e","m","p","l","a","t","e">>, template,
      <<"-","-","o","u","t","p","u","t">>, output_path>>
    \o TimeLimitArgs(time_limit)

attach(p) ==
    LET r == Run(FALSE, p) IN
    IF CalledProcessError(r) THEN Raise(<<"F","a","i","l","e","d"," ","t","o"," ","a","t","t","a","c","h"," ","t","r","a","c","e","r",":"," ">> \o FormatOpt(r.stderr))
    ELSE Return(None)

diagnose_archive_cmd(archive_path, output_dir) ==
    <<<<"x","c","t","r","a","c","e">>, <<"d","i","a","g","n","o","s","e">>, <<"-","-","i","n","p","u","t">>, archive_path, <<"-","-","o","u","t","p","u","t">>, output_dir>>

diagnose_archive(p) ==
    LET r == Run(FALSE, p) IN
    IF CalledProcessError(r) THEN Raise(<<"F","a","i","l","e","d"," ","t","o"," ","d","i","a","g","n","o","s","e"," ","a","r","c","h","i","v","e",":"," ">> \o FormatOpt(r.stderr))
    ELSE Return(None)

document_template_cmd(template) == <<<<"x","c","t","r","a","c","e">>, <<"d","o","c","u","m","e","n","t","-","t","e","m","p","l","a","t","e">>, <<"-","-","t","e","m","p","l","a","t","e">>, template>>

\* what open(output_path, 'w') and f.write can do: io is "ok", "open_fails"
\* (nothing touched) or "write_fails" (the file was opened, so truncated)
IoResults == {"ok", "open_fails", "write_fails"}

document_template(p, io) ==
    LET r == Run(TRUE, p) IN
    IF CalledProcessError(r) THEN Raise(<<"F","a","i","l","e","d"," ","t","o"," ","d","o","c","u","m","e","n","t"," ","t","e","m","p","l","a","t","e",":"," ">> \o FormatOpt(r.stderr))
    ELSE IF io # "ok" THEN Raise(<<"F","a","i","l","e","d"," ","t","o"," ","w","r","i","t","e"," ","d","o","c","u","m","e","n","t","a","t","i","o","n",":"," ">> \o <<"P","e","r","m","i","s","s","i","o","n"," ","d","e","n","i","e","d">>)
    ELSE Return(None)

\* the file opened before the process is looked at, and stdout written trimmed
document_template_effects_eager(output_path, p, io) ==
    IF io = "open_fails" THEN <<>>
    ELSE IF io = "write_fails" THEN <<[do |-> "open_w", path |-> output_path]>>
    ELSE <<[do |-> "open_w", path |-> output_path],
           [do |-> "write", path |-> output_path, data |-> Strip(p.out)]>>

\* the file-system effects of document_template after its process ended
document_template_effects(output_path, p, io) ==
    LET r == Run(TRUE, p) IN
    IF CalledProcessError(r) \/ io = "open_fails" THEN <<>>
    ELSE IF io = "write_fails" THEN <<[do |-> "open_w", path |-> output_path]>>
    ELSE <<[do |-> "open_w", path |-> output_path],
           [do |-> "write", path |-> output_path, data |-> r.stdout[1]]>>

analyze_trace_cmd(trace_path, output_dir) ==
    <<<<"x","c","t","r","a","c","e">>, <<"a","n","a","l","y","z","e">>, <<"-","-","i","n","p","u","t">>, trace_path, <<"-","-","o","u","t","p","u","t">>, output_dir>>

\* os.makedirs(output_dir, exist_ok=True), before the process is started
analyze_trace_makedirs(output_dir) == <<[do |-> "makedirs", path |-> output_dir]>>

analyze_trace(p) ==
    LET r == Run(FALSE, p) IN
    IF CalledProcessError(r) THEN Raise(<<"F","a","i","l","e","d"," ","t","o"," ","a","n","a","l","y","z","e"," ","t","r","a","c","e",":"," ">> \o FormatOpt(r.stderr))
    ELSE Return(None)

compare_traces_cmd(base_trace, comparison_trace, output_path) ==
    <<<<"x","c","t","r","a","c","e">>, <<"c","o","m","p","a","r","e">>, <<"-","-","b","a","s","e">>, base_trace, <<"-","-","c","o","m","p","a","r","e">>, comparison_trace,
      <<"-","-","o","u","t","p","u","t">>, output_path>>

compare_traces(p) ==
    LET r == Run(FALSE, p) IN
    IF CalledProcessError(r) THEN Raise(<<"F","a","i","l","e","d"," ","t","o"," ","c","o","m","p","a","r","e"," ","t","r","a","c","e","s",":"," ">> \o FormatOpt(r.stderr))
    ELSE Return(None)

(***************************************************************************)
(* main.py: the tools that wrap xctrace.py and xcrun.py.  A wrapper lets    *)
(* the library's exception through and answers with a confirmation.         *)
(***************************************************************************)
\* lib(...); return message
Then(lib, message) == IF lib.kind = "raise" THEN lib ELSE Return(message)

xctrace_devices(p) == xctrace_list_devices(p)

xctrace_templates(p) == list_templates(p)

xctrace_record(output_path, p) ==
    Then(record(p), <<"S","u","c","c","e","s","s","f","u","l","l","y"," ","r","e","c","o","r","d","e","d"," ","t","r","a","c","e"," ","t","o"," ">> \o output_path)

xctrace_export(output_path, p) ==
    Then(export(p), <<"S","u","c","c","e","s","s","f","u","l","l","y"," ","e","x","p","o","r","t","e","d"," ","t","r","a","c","e"," ","t","o"," ">> \o output_path)

xctrace_record_advanced(output_path, p) ==
    Then(record_with_options(p), <<"S","u","c","c","e","s","s","f","u","l","l","y"," ","r","e","c","o","r","d","e","d"," ","t","r","a","c","e"," ","t","o"," ">> \o output_path)

xctrace_attach_process(pid, output_path, p) ==
    Then(attach(p), <<"S","u","c","c","e","s","s","f","u","l","l","y"," ","a","t","t","a","c","h","e","d"," ","t","r","a","c","e","r"," ","t","o"," ","p","r","o","c","e","s","s"," ">> \o IntToStr(pid)
                    \o <<" ","a","n","d"," ","s","a","v","e","d"," ","t","r","a","c","e"," ","t","o"," ">> \o output_path)

xctrace_diagnose(output_dir, p) ==
    Then(diagnose_archive(p),
         <<"S","u","c","c","e","s","s","f","u","l","l","y"," ","d","i","a","g","n","o","s","e","d"," ","a","r","c","h","i","v","e"," ","a","n","d"," ","s","a","v","e","d"," ","r","e","s","u","l","t","s"," ","t","o"," ">> \o output_dir)

xctrace_document(template, output_path, p, io) ==
    Then(document_template(p, io), <<"S","u","c","c","e","s","s","f","u","l","l","y"," ","g","e","n","e","r","a","t","e","d"," ","d","o","c","u","m","e","n","t","a","t","i","o","n"," ","f","o","r"," ","t","e","m","p","l","a","t","e"," ">>
                                   \o template \o <<" ","t","o"," ">> \o output_path)

xctrace_analyze(output_dir, p) ==
    Then(analyze_trace(p), <<"S","u","c","c","e","s","s","f","u","l","l","y"," ","a","n","a","l","y","z","e","d"," ","t","r","a","c","e"," ","a","n","d"," ","s","a","v","e","d"," ","r","e","p","o","r","t","s"," ","t","o"," ">> \o output_dir)

xctrace_compare(output_path, p) ==
    Then(compare_traces(p), <<"S","u","c","c","e","s","s","f","u","l","l","y"," ","c","o","m","p","a","r","e","d"," ","t","r","a","c","e","s"," ","a","n","d"," ","s","a","v","e","d"," ","r","e","p","o","r","t"," ","t","o"," ">> \o output_path)

xcrun_list_sdks(p) == xcodebuild_list_sdks(p)

xcrun_list_schemes(p) == xcodebuild_list_schemes(p)

\* result = lib(...); return f"{heading}{result}"
Headed(lib, heading) == IF lib.kind = "raise" THEN lib ELSE Return(heading \o lib.value)

xcrun_build(p) == Headed(xcodebuild_build(p), <<"B","u","i","l","d"," ","c","o","m","p","l","e","t","e","d",":","\n">>)

xcrun_validate_app(p) == Headed(altool_validate_app(p), <<"A","p","p"," ","v","a","l","i","d","a","t","i","o","n"," ","c","o","m","p","l","e","t","e","d",":","\n">>)

xcrun_upload_app(p) == Headed(altool_upload_app(p), <<"A","p","p"," ","u","p","l","o","a","d"," ","c","o","m","p","l","e","t","e","d",":","\n">>)

xcrun_swift_symbols(p) == swift_symbols(p)

xcrun_otool_headers(p) == otool_headers(p)

xcrun_otool_libraries(p) == otool_libraries(p)

xcrun_nm_symbols(p) == nm_symbols(p)

(***************************************************************************)
(* The inputs: what a caller may pass and what a child process may do.      *)
(***************************************************************************)
TextsUpTo(alphabet, n) == UNION {[1..k -> alphabet] : k \in 0..n}

Prefixes(s) == {SubSeq(s, 1, k) : k \in 1..Len(s)}

DeviceIds == {<<"A","B","C","-","1","2","3">>, <<"x">>}

AppPaths == {<<"/","t","/","M","y",".","a","p","p">>}

BundleIds == {<<"c","o","m",".","a">>}

ToolNames == {<<"c","l","a","n","g">>, <<"n","m">>}

\* for xcrun_build sdk: str = "iphonesimulator" may be left out
SdkNames == {<<"m","a","c","o","s","x">>}

ExtraArgs == {<<>>, <<<<"-","v">>, <<"f",".","c">>>>}

Templates == {<<"L","e","a","k","s">>}

TracePaths == {<<"/","t","/","a",".","t","r","a","c","e">>, <<"o">>}

OutputDirs == {<<"/","t","/","o","u","t">>}

ProjectPaths == {<<"A",".","x","c","o","d","e","p","r","o","j">>}

Schemes == {<<"A","p","p">>}

\* configuration: str = "Debug" may be left out
Configurations == {None, Some(<<"D","e","b","u","g">>), Some(<<"R","e","l","e","a","s","e">>)}

Usernames == {<<"u","@","a">>}

KeychainItems == {<<"A","C","_","P","W">>}

BinaryPaths == {<<"/","t","/","b","i","n">>}

\* type: str = "json" may be left out
ExportTypes == {None, Some(<<"h","t","m","l">>)}

Pids == {7, 4321}

TimeLimits == {None, Some(0), Some(120), Some(-5)}

Destinations == {None, Some(<<>>), Some(<<"p","l","a","t","f","o","r","m","=","i","O","S"," ","S","i","m","u","l","a","t","o","r",",","n","a","m","e","=","i","P","h","o","n","e"," ","1","4">>)}

\* the entries a template_options or env_vars dict is built from, by key
Entries == {<<<<"k">>, <<"v">>>>, <<<<"m">>, <<"w"," ","x">>>>}

\* None, or a dict of at most MaxEntries entries with distinct keys, in every order
OptionMaps ==
    {None} \cup
    {Some(d) : d \in {e \in UNION {[1..n -> Entries] : n \in 0..MaxEntries} :
                         \A i, j \in 1..Len(e) : i # j => e[i][1] # e[j][1]}}

LaunchArgs ==
    {None} \cup {Some(l) : l \in UNION {[1..n -> {<<"-","a">>, <<"b">>}] : n \in 0..MaxEntries}}

ExitStatuses == 0..MaxExit

Stderrs == {<<>>, <<"n","o"," ","s","u","c","h"," ","d","e","v","i","c","e">>}

JsonSamples ==
    { <<"{","\"","d","e","v","i","c","e","s","\"",":","[","]","}">>,
      <<"{","\"","p","r","o","j","e","c","t","\"",":","{","\"","s","c","h","e","m","e","s","\"",":","[","\"","a","\"",",","\"","b","\"","]","}","}">>,
      <<"{","\"","p","r","o","j","e","c","t","\"",":","{","}","}">>,
      <<"{","\"","p","r","o","j","e","c","t","\"",":","[","]","}">>,
      <<"{","\"","s","c","h","e","m","e","s","\"",":","[","\"","a","\"","]","}">>,
      <<"[","1",",","\"","a","\"","]">>,
      <<"\"","a","\"">>,
      <<"1","2">>,
      <<"n","u","l","l">>,
      <<"{"," ","\"","a","\"",":","1",",","\"","a","\"",":","2","}","\n">>,
      <<"{","}","a">>,
      <<"[","1",",","]">> }

LineSamples == {<<"a","\n","b","\n">>, <<"a","\n","\n","b">>, <<"a","\r","\n","b">>, <<"\t","a"," ","b","\t">>}

\* what a process whose output is captured may write to its standard output
Stdouts ==
    TextsUpTo({"a", " ", "\n"}, MaxTextLen) \cup LineSamples
    \cup UNION {Prefixes(s) : s \in JsonSamples}

\* what a process that inherits the server's streams may write there
InheritedStdouts == {<<>>, <<"a","\n">>}

(***************************************************************************)
(* The state: one request at a time, as each handler blocks in              *)
(* subprocess.run until its child has ended.                                *)
(***************************************************************************)
VARIABLES
    pc,        \* "Idle", "Running" (the child runs), "Succeeded", "Failed"
    op,        \* the tool called
    args,      \* its arguments, a record
    argv,      \* the argument vector handed to subprocess.run
    spawned,   \* the number of processes this call has started
    proc,      \* None, or Some([exit, out, err]): what the child did
    outcome,   \* None, or Some(Return(v) or a raise)
    effects    \* what this call itself did to the file system, in order

vars == <<pc, op, args, argv, spawned, proc, outcome, effects>>

Init ==
    /\ pc = "Idle"
    /\ op = ""
    /\ args = <<>>
    /\ argv = <<>>
    /\ spawned = 0
    /\ proc = None
    /\ outcome = None
    /\ effects = <<>>

\* the tools whose process runs with capture_output=True
Capturing ==
    {"list_devices", "boot_device", "shutdown_device", "install_app", "launch_app",
     "get_sdk_path", "get_sdk_version", "get_sdk_platform_path", "find_developer_tool",
     "run_tool_with_sdk", "xctrace_devices", "xctrace_templates", "xctrace_document",
     "xcrun_list_sdks", "xcrun_list_schemes", "xcrun_build", "xcrun_validate_app",
     "xcrun_upload_app", "xcrun_swift_symbols", "xcrun_otool_headers",
     "xcrun_otool_libraries", "xcrun_nm_symbols"}

\* the handler builds cmd and blocks in subprocess.run(cmd, ...)
Start(o, a, cmd, eff) ==
    /\ pc' = "Running"
    /\ op' = o
    /\ args' = a
    /\ argv' = cmd
    /\ spawned' = spawned + 1
    /\ effects' = eff
    /\ UNCHANGED <<proc, outcome>>

\* the handler ends without starting a process
Finish(o, a, res, eff) ==
    /\ pc' = IF res.kind = "return" THEN "Succeeded" ELSE "Failed"
    /\ op' = o
    /\ args' = a
    /\ outcome' = Some(res)
    /\ effects' = eff
    /\ UNCHANGED <<argv, spawned, proc>>

(***************************************************************************)
(* The requests: one action per tool of main.py.                            *)
(***************************************************************************)
Call_get_mcpxcode ==
    /\ pc = "Idle"
    /\ Finish("get_mcpxcode", <<>>, get_mcpxcode, <<>>)

Call_list_devices ==
    /\ pc = "Idle"
    /\ Start("list_devices", <<>>, list_devices_cmd, <<>>)

Call_boot_device ==
    /\ pc = "Idle"
    /\ \E d \in DeviceIds : Start("boot_device", [device_id |-> d], boot_device_cmd(d), <<>>)

Call_shutdown_device ==
    /\ pc = "Idle"
    /\ \E d \in DeviceIds :
        Start("shutdown_device", [device_id |-> d], shutdown_device_cmd(d), <<>>)

Call_install_app ==
    /\ pc = "Idle"
    /\ \E d \in DeviceIds, a \in AppPaths :
        Start("install_app", [device_id |-> d, app_path |-> a], install_app_cmd(d, a), <<>>)

Call_launch_app ==
    /\ pc = "Idle"
    /\ \E d \in DeviceIds, b \in BundleIds :
        Start("launch_app", [device_id |-> d, bundle_id |-> b], launch_app_cmd(d, b), <<>>)

Call_get_sdk_path ==
    /\ pc = "Idle"
    /\ Start("get_sdk_path", <<>>, get_sdk_path_cmd, <<>>)

Call_get_sdk_version ==
    /\ pc = "Idle"
    /\ Start("get_sdk_version", <<>>, get_sdk_version_cmd, <<>>)

Call_get_sdk_platform_path ==
    /\ pc = "Idle"
    /\ Start("get_sdk_platform_path", <<>>, get_sdk_platform_path_cmd, <<>>)

Call_find_developer_tool ==
    /\ pc = "Idle"
    /\ \E t \in ToolNames :
        Start("find_developer_tool", [tool_name |-> t], find_developer_tool_cmd(t), <<>>)

Call_run_tool_with_sdk ==
    /\ pc = "Idle"
    /\ \E t \in ToolNames, s \in SdkNames, x \in ExtraArgs :
        Start("run_tool_with_sdk", [tool_name |-> t, sdk_name |-> s, args |-> x],
              run_tool_with_sdk_cmd(t, s, x), <<>>)

Call_xctrace_devices ==
    /\ pc = "Idle"
    /\ Start("xctrace_devices", <<>>, xctrace_list_devices_cmd, <<>>)

Call_xctrace_templates ==
    /\ pc = "Idle"
    /\ Start("xctrace_templates", <<>>, list_templates_cmd, <<>>)

Call_xctrace_record ==
    /\ pc = "Idle"
    /\ \E t \in Templates, d \in DeviceIds, b \in BundleIds, o \in TracePaths, l \in TimeLimits :
        Start("xctrace_record",
              [template |-> t, device_id |-> d, app_bundle_id |-> b, output_path |-> o,
               time_limit |-> l],
              record_cmd(t, d, b, o, l), <<>>)

Call_xctrace_export ==
    /\ pc = "Idle"
    /\ \E i \in TracePaths, o \in TracePaths, y \in ExportTypes :
        Start("xctrace_export", [trace_path |-> i, output_path |-> o, type |-> y],
              export_cmd(i, o, Default(y, <<"j","s","o","n">>)), <<>>)

Call_xctrace_record_advanced ==
    /\ pc = "Idle"
    /\ \E t \in Templates, d \in DeviceIds, b \in BundleIds, o \in TracePaths, l \in TimeLimits,
       m \in OptionMaps, la \in LaunchArgs, e \in OptionMaps :
        Start("xctrace_record_advanced",
              [template |-> t, device_id |-> d, app_bundle_id |-> b, output_path |-> o,
               time_limit |-> l, template_options |-> m, launch_args |-> la, env_vars |-> e],
              record_with_options_cmd(t, d, b, o, l, m, la, e), <<>>)

Call_xctrace_attach_process ==
    /\ pc = "Idle"
    /\ \E p \in Pids, t \in Templates, o \in TracePaths, l \in TimeLimits :
        Start("xctrace_attach_process",
              [pid |-> p, template |-> t, output_path |-> o, time_limit |-> l],
              attach_cmd(p, t, o, l), <<>>)

Call_xctrace_diagnose ==
    /\ pc = "Idle"
    /\ \E a \in TracePaths, o \in OutputDirs :
        Start("xctrace_diagnose", [archive_path |-> a, output_dir |-> o],
              diagnose_archive_cmd(a, o), <<>>)

Call_xctrace_document ==
    /\ pc = "Idle"
    /\ \E t \in Templates, o \in TracePaths :
        Start("xctrace_document", [template |-> t, output_path |-> o],
              document_template_cmd(t), <<>>)

\* os.makedirs runs first: when it raises OSError no process is started
Call_xctrace_analyze ==
    /\ pc = "Idle"
    /\ \E t \in TracePaths, o \in OutputDirs :
        \/ Start("xctrace_analyze", [trace_path |-> t, output_dir |-> o],
                 analyze_trace_cmd(t, o), analyze_trace_makedirs(o))
        \/ Finish("xctrace_analyze", [trace_path |-> t, output_dir |-> o],
                  Uncaught("OSError"), <<>>)

Call_xctrace_compare ==
    /\ pc = "Idle"
    /\ \E b \in TracePaths, c \in TracePaths, o \in TracePaths :
        Start("xctrace_compare", [base_trace |-> b, comparison_trace |-> c, output_path |-> o],
              compare_traces_cmd(b, c, o), <<>>)

Call_xcrun_list_sdks ==
    /\ pc = "Idle"
    /\ Start("xcrun_list_sdks", <<>>, xcodebuild_list_sdks_cmd, <<>>)

Call_xcrun_list_schemes ==
    /\ pc = "Idle"
    /\ \E j \in ProjectPaths :
        Start("xcrun_list_schemes", [project_path |-> j], xcodebuild_list_schemes_cmd(j), <<>>)

Call_xcrun_build ==
    /\ pc = "Idle"
    /\ \E j \in ProjectPaths, s \in Schemes, c \in Configurations,
       k \in {None} \cup {Some(x) : x \in SdkNames}, d \in Destinations :
        Start("xcrun_build",
              [project_path |-> j, scheme |-> s, configuration |-> c, sdk |-> k,
               destination |-> d],
              xcodebuild_build_cmd(j, s, Default(c, <<"D","e","b","u","g">>), Default(k, <<"i","p","h","o","n","e","s","i","m","u","l","a","t","o","r">>), d),
              <<>>)

Call_xcrun_validate_app ==
    /\ pc = "Idle"
    /\ \E a \in AppPaths, u \in Usernames, k \in KeychainItems :
        Start("xcrun_validate_app",
              [app_path |-> a, username |-> u, password_keychain_item |-> k],
              altool_validate_app_cmd(a, u, k), <<>>)

Call_xcrun_upload_app ==
    /\ pc = "Idle"
    /\ \E a \in AppPaths, u \in Usernames, k \in KeychainItems :
        Start("xcrun_upload_app",
              [app_path |-> a, username |-> u, password_keychain_item |-> k],
              altool_upload_app_cmd(a, u, k), <<>>)

Call_xcrun_swift_symbols ==
    /\ pc = "Idle"
    /\ \E b \in BinaryPaths :
        Start("xcrun_swift_symbols", [binary_path |-> b], swift_symbols_cmd(b), <<>>)

Call_xcrun_otool_headers ==
    /\ pc = "Idle"
    /\ \E b \in BinaryPaths :
        Start("xcrun_otool_headers", [binary_path |-> b], otool_headers_cmd(b), <<>>)

Call_xcrun_otool_libraries ==
    /\ pc = "Idle"
    /\ \E b \in BinaryPaths :
        Start("xcrun_otool_libraries", [binary_path |-> b], otool_libraries_cmd(b), <<>>)

Call_xcrun_nm_symbols ==
    /\ pc = "Idle"
    /\ \E b \in BinaryPaths :
        Start("xcrun_nm_symbols", [binary_path |-> b], nm_symbols_cmd(b), <<>>)

(***************************************************************************)
(* The child ends as p and the blocked handler runs to its end.             *)
(***************************************************************************)
Handle(o, a, p, io) ==
    CASE o = "list_devices" -> list_devices(p)
      [] o = "boot_device" -> boot_device(a.device_id, p)
      [] o = "shutdown_device" -> shutdown_device(a.device_id, p)
      [] o = "install_app" -> install_app(a.device_id, a.app_path, p)
      [] o = "launch_app" -> launch_app(a.device_id, a.bundle_id, p)
      [] o = "get_sdk_path" -> get_sdk_path(p)
      [] o = "get_sdk_version" -> get_sdk_version(p)
      [] o = "get_sdk_platform_path" -> get_sdk_platform_path(p)
      [] o = "find_developer_tool" -> find_developer_tool(a.tool_name, p)
      [] o = "run_tool_with_sdk" -> run_tool_with_sdk(a.tool_name, a.sdk_name, p)
      [] o = "xctrace_devices" -> xctrace_devices(p)
      [] o = "xctrace_templates" -> xctrace_templates(p)
      [] o = "xctrace_record" -> xctrace_record(a.output_path, p)
      [] o = "xctrace_export" -> xctrace_export(a.output_path, p)
      [] o = "xctrace_record_advanced" -> xctrace_record_advanced(a.output_path, p)
      [] o = "xctrace_attach_process" -> xctrace_attach_process(a.pid, a.output_path, p)
      [] o = "xctrace_diagnose" -> xctrace_diagnose(a.output_dir, p)
      [] o = "xctrace_document" -> xctrace_document(a.template, a.output_path, p, io)
      [] o = "xctrace_analyze" -> xctrace_analyze(a.output_dir, p)
      [] o = "xctrace_compare" -> xctrace_compare(a.output_path, p)
      [] o = "xcrun_list_sdks" -> xcrun_list_sdks(p)
      [] o = "xcrun_list_schemes" -> xcrun_list_schemes(p)
      [] o = "xcrun_build" -> xcrun_build(p)
      [] o = "xcrun_validate_app" -> xcrun_validate_app(p)
      [] o = "xcrun_upload_app" -> xcrun_upload_app(p)
      [] o = "xcrun_swift_symbols" -> xcrun_swift_symbols(p)
      [] o = "xcrun_otool_headers" -> xcrun_otool_headers(p)
      [] o = "xcrun_otool_libraries" -> xcrun_otool_libraries(p)
      [] o = "xcrun_nm_symbols" -> xcrun_nm_symbols(p)

\* every handler appending what its process printed to a log file
HandleEffects_log(o, a, p, io) == <<[do |-> "write", path |-> <<"l","o","g">>, data |-> p.out]>>

\* what the handler does to the file system after its process ended
HandleEffects(o, a, p, io) ==
    IF o = "xctrace_document" THEN document_template_effects(a.output_path, p, io) ELSE <<>>

\* a failed process started once more instead of the failure being raised
ProcessExit_retry ==
    /\ pc = "Running"
    /\ \E e \in ExitStatuses, er \in Stderrs,
          so \in (IF op \in Capturing THEN Stdouts ELSE InheritedStdouts),
          io \in (IF op = "xctrace_document" THEN IoResults ELSE {"ok"}) :
          LET p == [exit |-> e, out |-> so, err |-> er]
              res == Handle(op, args, p, io)
          IN  IF e # 0 /\ spawned < 2
              THEN /\ pc' = "Running"
                   /\ spawned' = spawned + 1
                   /\ UNCHANGED <<proc, outcome, effects>>
              ELSE /\ proc' = Some(p)
                   /\ outcome' = Some(res)
                   /\ pc' = IF res.kind = "return" THEN "Succeeded" ELSE "Failed"
                   /\ effects' = effects \o HandleEffects(op, args, p, io)
                   /\ spawned' = spawned
    /\ UNCHANGED <<op, args, argv>>

ProcessExit ==
    /\ pc = "Running"
    /\ \E e \in ExitStatuses, er \in Stderrs,
          so \in (IF op \in Capturing THEN Stdouts ELSE InheritedStdouts),
          io \in (IF op = "xctrace_document" THEN IoResults ELSE {"ok"}) :
          LET p == [exit |-> e, out |-> so, err |-> er]
              res == Handle(op, args, p, io)
          IN  /\ proc' = Some(p)
              /\ outcome' = Some(res)
              /\ pc' = IF res.kind = "return" THEN "Succeeded" ELSE "Failed"
              /\ effects' = effects \o HandleEffects(op, args, p, io)
    /\ UNCHANGED <<op, args, argv, spawned>>

\* the outcome goes to the protocol layer and the server takes the next request
NextRequest ==
    /\ pc \in {"Succeeded", "Failed"}
    /\ pc' = "Idle"
    /\ op' = ""
    /\ args' = <<>>
    /\ argv' = <<>>
    /\ spawned' = 0
    /\ proc' = None
    /\ outcome' = None
    /\ effects' = <<>>

Next ==
    \/ Call_get_mcpxcode
    \/ Call_list_devices
    \/ Call_boot_device
    \/ Call_shutdown_device
    \/ Call_install_app
    \/ Call_launch_app
    \/ Call_get_sdk_path
    \/ Call_get_sdk_version
    \/ Call_get_sdk_platform_path
    \/ Call_find_developer_tool
    \/ Call_run_tool_with_sdk
    \/ Call_xctrace_devices
    \/ Call_xctrace_templates
    \/ Call_xctrace_record
    \/ Call_xctrace_export
    \/ Call_xctrace_record_advanced
    \/ Call_xctrace_attach_process
    \/ Call_xctrace_diagnose
    \/ Call_xctrace_document
    \/ Call_xctrace_analyze
    \/ Call_xctrace_compare
    \/ Call_xcrun_list_sdks
    \/ Call_xcrun_list_schemes
    \/ Call_xcrun_build
    \/ Call_xcrun_validate_app
    \/ Call_xcrun_upload_app
    \/ Call_xcrun_swift_symbols
    \/ Call_xcrun_otool_headers
    \/ Call_xcrun_otool_libraries
    \/ Call_xcrun_nm_symbols
    \/ ProcessExit
    \/ NextRequest

Spec == Init /\ [][Next]_vars

(***************************************************************************)
(* Several calls in flight.  The protocol layer may run each call on a task *)
(* of its own, so the steps of MaxCalls calls interleave freely.  Every     *)
(* variable now holds one value per call, except effects: the file system   *)
(* is the one thing the calls have in common.  A call is made once and its  *)
(* final state stays.                                                       *)
(***************************************************************************)
\* the calls made at the same time
ConcRequests ==
    {[op |-> "list_devices", args |-> <<>>]}
    \cup {[op |-> "boot_device", args |-> [device_id |-> <<"x">>]]}
    \cup {[op |-> "xctrace_record_advanced",
           args |-> [template |-> <<"L","e","a","k","s">>, device_id |-> <<"x">>, app_bundle_id |-> <<"c","o","m",".","a">>,
                     output_path |-> <<"o">>, time_limit |-> l, template_options |-> m,
                     launch_args |-> None, env_vars |-> m]] :
              <<l, m>> \in {<<None, None>>, <<Some(120), Some(<< <<<<"k">>, <<"v">>>> >>)>>}}
    \cup {[op |-> "xctrace_document", args |-> [template |-> <<"L","e","a","k","s">>, output_path |-> <<"o">>]]}
    \cup {[op |-> "xctrace_analyze", args |-> [trace_path |-> <<"o">>, output_dir |-> o]] :
              o \in OutputDirs}

\* the argument vector the handler of o builds from the arguments a
CmdFor(o, a) ==
    CASE o = "list_devices" -> list_devices_cmd
      [] o = "boot_device" -> boot_device_cmd(a.device_id)
      [] o = "xctrace_record_advanced" ->
             record_with_options_cmd(a.template, a.device_id, a.app_bundle_id, a.output_path,
                                     a.time_limit, a.template_options, a.launch_args,
                                     a.env_vars)
      [] o = "xctrace_document" -> document_template_cmd(a.template)
      [] o = "xctrace_analyze" -> analyze_trace_cmd(a.trace_path, a.output_dir)

\* one list named cmd for all calls: a module-level variable
CmdOf_shared(i) == 1

\* cmd is a local variable: call i builds its vector in a list of its own
CmdOf(i) == i

ConcInit ==
    /\ pc = [i \in 1..MaxCalls |-> "Idle"]
    /\ op = [i \in 1..MaxCalls |-> ""]
    /\ args = [i \in 1..MaxCalls |-> <<>>]
    /\ argv = [i \in 1..MaxCalls |-> <<>>]
    /\ spawned = [i \in 1..MaxCalls |-> 0]
    /\ proc = [i \in 1..MaxCalls |-> None]
    /\ outcome = [i \in 1..MaxCalls |-> None]
    /\ effects = <<>>

\* the handler is entered: cmd = [...] with the required arguments;
\* analyze_trace creates its directory first and ends at once when that fails
ConcBegin(i) ==
    /\ pc[i] = "Idle"
    /\ \E r \in ConcRequests :
        LET full == CmdFor(r.op, r.args)
            n == IF r.op = "xctrace_record_advanced" THEN 10 ELSE Len(full)
        IN  /\ op' = [op EXCEPT ![i] = r.op]
            /\ args' = [args EXCEPT ![i] = r.args]
            /\ \/ /\ pc' = [pc EXCEPT ![i] = "Building"]
                  /\ argv' = [argv EXCEPT ![CmdOf(i)] = SubSeq(full, 1, n)]
                  /\ effects' = effects \o (IF r.op = "xctrace_analyze"
                                            THEN analyze_trace_makedirs(r.args.output_dir)
                                            ELSE <<>>)
                  /\ UNCHANGED outcome
               \/ /\ r.op = "xctrace_analyze"
                  /\ pc' = [pc EXCEPT ![i] = "Failed"]
                  /\ outcome' = [outcome EXCEPT ![i] = Some(Uncaught("OSError"))]
                  /\ UNCHANGED <<argv, effects>>
    /\ UNCHANGED <<spawned, proc>>

\* the cmd.extend(...) calls for the optional arguments, then subprocess.run(cmd)
ConcExtend(i) ==
    /\ pc[i] = "Building"
    /\ LET full == CmdFor(op[i], args[i])
           have == argv[CmdOf(i)]
       IN  argv' = [argv EXCEPT ![CmdOf(i)] = have \o SubSeq(full, Len(have) + 1, Len(full))]
    /\ pc' = [pc EXCEPT ![i] = "Running"]
    /\ spawned' = [spawned EXCEPT ![i] = @ + 1]
    /\ UNCHANGED <<op, args, proc, outcome, effects>>

\* the child of call i ends and its handler runs to its end; a child that fails
\* is taken to have printed nothing, one that succeeds to have left stderr empty
ConcExit(i) ==
    /\ pc[i] = "Running"
    /\ \E e \in ExitStatuses :
       \E er \in (IF e # 0 THEN Stderrs ELSE {<<>>}),
          so \in (IF e = 0 /\ op[i] \in Capturing THEN {<<>>, <<"{","\"","d","e","v","i","c","e","s","\"",":","[","]","}">>} ELSE {<<>>}),
          io \in (IF e = 0 /\ op[i] = "xctrace_document" THEN IoResults ELSE {"ok"}) :
          LET p == [exit |-> e, out |-> so, err |-> er]
              res == Handle(op[i], args[i], p, io)
          IN  /\ proc' = [proc EXCEPT ![i] = Some([p |-> p, io |-> io])]
              /\ outcome' = [outcome EXCEPT ![i] = Some(res)]
              /\ pc' = [pc EXCEPT ![i] = IF res.kind = "return" THEN "Succeeded" ELSE "Failed"]
              /\ effects' = effects \o HandleEffects(op[i], args[i], p, io)
    /\ UNCHANGED <<op, args, argv, spawned>>

ConcNext == \E i \in 1..MaxCalls : ConcBegin(i) \/ ConcExtend(i) \/ ConcExit(i)

ConcSpec == ConcInit /\ [][ConcNext]_vars

(***************************************************************************)
(* Properties.                                                              *)
(***************************************************************************)
Contains(hay, needle) ==
    \E i \in 0..(Len(hay) - Len(needle)) : SubSeq(hay, i + 1, i + Len(needle)) = needle

IsPrefix(pre, s) == Len(pre) <= Len(s) /\ SubSeq(s, 1, Len(pre)) = pre

Done == pc \in {"Succeeded", "Failed"}

\* the child of the current call has ended
Exited == proc # None

ExitedWith0 == Exited /\ proc[1].exit = 0

ExitedNon0 == Exited /\ proc[1].exit # 0

\* the call failed with Exception(msg)
FailedWith(msg) == pc = "Failed" /\ outcome = Some([kind |-> "raise", exc |-> "Exception", msg |-> msg])

\* the call failed with some Exception(msg) whose msg satisfies nothing yet
FailedWithException ==
    pc = "Failed" /\ outcome # None /\ outcome[1].kind = "raise" /\ outcome[1].exc = "Exception"

Returned(v) == pc = "Succeeded" /\ outcome = Some([kind |-> "return", value |-> v])

\* C1: whenever the child exits with a status other than 0, the call fails and
\* the failure message contains the text the child wrote to standard error.
C1_StderrInFailureMessage ==
    ExitedNon0 => FailedWithException /\ Contains(outcome[1].msg, proc[1].err)

\* the names an operation goes by: its tool name and the library function behind it
OperationNames(o) ==
    CASE o = "xctrace_devices" -> {<<"x","c","t","r","a","c","e","_","d","e","v","i","c","e","s">>, <<"l","i","s","t","_","d","e","v","i","c","e","s">>}
      [] o = "xctrace_templates" -> {<<"x","c","t","r","a","c","e","_","t","e","m","p","l","a","t","e","s">>, <<"l","i","s","t","_","t","e","m","p","l","a","t","e","s">>}
      [] o = "xctrace_record" -> {<<"x","c","t","r","a","c","e","_","r","e","c","o","r","d">>, <<"r","e","c","o","r","d">>}
      [] o = "xctrace_export" -> {<<"x","c","t","r","a","c","e","_","e","x","p","o","r","t">>, <<"e","x","p","o","r","t">>}
      [] o = "xctrace_record_advanced" -> {<<"x","c","t","r","a","c","e","_","r","e","c","o","r","d","_","a","d","v","a","n","c","e","d">>, <<"r","e","c","o","r","d","_","w","i","t","h","_","o","p","t","i","o","n","s">>}
      [] o = "xctrace_attach_process" -> {<<"x","c","t","r","a","c","e","_","a","t","t","a","c","h","_","p","r","o","c","e","s","s">>, <<"a","t","t","a","c","h">>}
      [] o = "xctrace_diagnose" -> {<<"x","c","t","r","a","c","e","_","d","i","a","g","n","o","s","e">>, <<"d","i","a","g","n","o","s","e","_","a","r","c","h","i","v","e">>}
      [] o = "xctrace_document" -> {<<"x","c","t","r","a","c","e","_","d","o","c","u","m","e","n","t">>, <<"d","o","c","u","m","e","n","t","_","t","e","m","p","l","a","t","e">>}
      [] o = "xctrace_analyze" -> {<<"x","c","t","r","a","c","e","_","a","n","a","l","y","z","e">>, <<"a","n","a","l","y","z","e","_","t","r","a","c","e">>}
      [] o = "xctrace_compare" -> {<<"x","c","t","r","a","c","e","_","c","o","m","p","a","r","e">>, <<"c","o","m","p","a","r","e","_","t","r","a","c","e","s">>}
      [] o = "xcrun_list_sdks" -> {<<"x","c","r","u","n","_","l","i","s","t","_","s","d","k","s">>, <<"x","c","o","d","e","b","u","i","l","d","_","l","i","s","t","_","s","d","k","s">>}
      [] o = "xcrun_list_schemes" -> {<<"x","c","r","u","n","_","l","i","s","t","_","s","c","h","e","m","e","s">>, <<"x","c","o","d","e","b","u","i","l","d","_","l","i","s","t","_","s","c","h","e","m","e","s">>}
      [] o = "xcrun_build" -> {<<"x","c","r","u","n","_","b","u","i","l","d">>, <<"x","c","o","d","e","b","u","i","l","d","_","b","u","i","l","d">>}
      [] o = "xcrun_validate_app" -> {<<"x","c","r","u","n","_","v","a","l","i","d","a","t","e","_","a","p","p">>, <<"a","l","t","o","o","l","_","v","a","l","i","d","a","t","e","_","a","p","p">>}
      [] o = "xcrun_upload_app" -> {<<"x","c","r","u","n","_","u","p","l","o","a","d","_","a","p","p">>, <<"a","l","t","o","o","l","_","u","p","l","o","a","d","_","a","p","p">>}
      [] o = "xcrun_swift_symbols" -> {<<"x","c","r","u","n","_","s","w","i","f","t","_","s","y","m","b","o","l","s">>, <<"s","w","i","f","t","_","s","y","m","b","o","l","s">>}
      [] o = "xcrun_otool_headers" -> {<<"x","c","r","u","n","_","o","t","o","o","l","_","h","e","a","d","e","r","s">>, <<"o","t","o","o","l","_","h","e","a","d","e","r","s">>}
      [] o = "xcrun_otool_libraries" -> {<<"x","c","r","u","n","_","o","t","o","o","l","_","l","i","b","r","a","r","i","e","s">>, <<"o","t","o","o","l","_","l","i","b","r","a","r","i","e","s">>}
      [] o = "xcrun_nm_symbols" -> {<<"x","c","r","u","n","_","n","m","_","s","y","m","b","o","l","s">>, <<"n","m","_","s","y","m","b","o","l","s">>}
      [] o = "list_devices" -> {<<"l","i","s","t","_","d","e","v","i","c","e","s">>}
      [] o = "boot_device" -> {<<"b","o","o","t","_","d","e","v","i","c","e">>}
      [] o = "shutdown_device" -> {<<"s","h","u","t","d","o","w","n","_","d","e","v","i","c","e">>}
      [] o = "install_app" -> {<<"i","n","s","t","a","l","l","_","a","p","p">>}
      [] o = "launch_app" -> {<<"l","a","u","n","c","h","_","a","p","p">>}
      [] o = "get_sdk_path" -> {<<"g","e","t","_","s","d","k","_","p","a","t","h">>}
      [] o = "get_sdk_version" -> {<<"g","e","t","_","s","d","k","_","v","e","r","s","i","o","n">>}
      [] o = "get_sdk_platform_path" -> {<<"g","e","t","_","s","d","k","_","p","l","a","t","f","o","r","m","_","p","a","t","h">>}
      [] o = "find_developer_tool" -> {<<"f","i","n","d","_","d","e","v","e","l","o","p","e","r","_","t","o","o","l">>}
      [] o = "run_tool_with_sdk" -> {<<"r","u","n","_","t","o","o","l","_","w","i","t","h","_","s","d","k">>}

\* C2 as stated: on a non-zero exit status the failure message holds the name of
\* the operation; boot_device failing names "boot_device" and holds the stderr text.
C2_MessageNamesOperation ==
    ExitedNon0 =>
        /\ FailedWithException
        /\ \E n \in OperationNames(op) : Contains(outcome[1].msg, n)
        /\ op = "boot_device" => Contains(outcome[1].msg, proc[1].err)

\* how every process-failure message begins
FailurePhrases ==
    {<<"F","a","i","l","e","d"," ","t","o"," ">>, <<"B","u","i","l","d"," ","f","a","i","l","e","d",":"," ">>, <<"A","p","p"," ","v","a","l","i","d","a","t","i","o","n"," ","f","a","i","l","e","d",":"," ">>, <<"A","p","p"," ","u","p","l","o","a","d"," ","f","a","i","l","e","d",":"," ">>}

\* C2, amended: on a non-zero exit status the failure message begins with a
\* descriptive phrase, not the operation's name; for boot_device it is exactly
\* "Failed to boot device: " followed by the text the child wrote to stderr.
C2_MessageDescribesOperation ==
    ExitedNon0 =>
        /\ FailedWithException
        /\ \E ph \in FailurePhrases : IsPrefix(ph, outcome[1].msg)
        /\ op = "boot_device" => outcome[1].msg = <<"F","a","i","l","e","d"," ","t","o"," ","b","o","o","t"," ","d","e","v","i","c","e",":"," ">> \o proc[1].err

C2_Witness ==
    /\ op = "boot_device"
    /\ Exited
    /\ proc[1].exit = 1
    /\ proc[1].err = <<"n","o"," ","s","u","c","h"," ","d","e","v","i","c","e">>
    /\ FailedWith(<<"F","a","i","l","e","d"," ","t","o"," ","b","o","o","t"," ","d","e","v","i","c","e",":"," ","n","o"," ","s","u","c","h"," ","d","e","v","i","c","e">>)

\* C3: with exit status 0, boot_device, shutdown_device, install_app and
\* launch_app return a confirmation built from their arguments alone, whatever
\* the child wrote: boot_device(d) returns "Successfully booted device " and d.
C3_ConfirmationFromArguments ==
    ExitedWith0 =>
        /\ op = "boot_device" => Returned(<<"S","u","c","c","e","s","s","f","u","l","l","y"," ","b","o","o","t","e","d"," ","d","e","v","i","c","e"," ">> \o args.device_id)
        /\ op = "shutdown_device" =>
               Returned(<<"S","u","c","c","e","s","s","f","u","l","l","y"," ","s","h","u","t","d","o","w","n"," ","d","e","v","i","c","e"," ">> \o args.device_id)
        /\ op = "install_app" =>
               Returned(<<"S","u","c","c","e","s","s","f","u","l","l","y"," ","i","n","s","t","a","l","l","e","d"," ","a","p","p"," ","a","t"," ">> \o args.app_path
                        \o <<" ","o","n"," ","d","e","v","i","c","e"," ">> \o args.device_id)
        /\ op = "launch_app" =>
               Returned(<<"S","u","c","c","e","s","s","f","u","l","l","y"," ","l","a","u","n","c","h","e","d"," ","a","p","p"," ">> \o args.bundle_id
                        \o <<" ","o","n"," ","d","e","v","i","c","e"," ">> \o args.device_id)

C3_Witness ==
    /\ op = "boot_device"
    /\ args.device_id = <<"A","B","C","-","1","2","3">>
    /\ ExitedWith0
    /\ proc[1].out # <<>>
    /\ proc[1].err # <<>>
    /\ Returned(<<"S","u","c","c","e","s","s","f","u","l","l","y"," ","b","o","o","t","e","d"," ","d","e","v","i","c","e"," ","A","B","C","-","1","2","3">>)

\* the tools that return json.loads(stdout) as it is
DocumentOps == {"list_devices", "xctrace_devices", "xctrace_templates", "xcrun_list_sdks"}

JsonOps == DocumentOps \cup {"xcrun_list_schemes"}

RECURSIVE JsonDumps(_)
RECURSIVE DumpItems(_)
RECURSIVE DumpMembers(_)

\* the compact JSON text of a document
JsonDumps(d) ==
    IF "str" \in DOMAIN d THEN <<"\"">> \o d.str \o <<"\"">>
    ELSE IF "int" \in DOMAIN d THEN IntToStr(d.int)
    ELSE IF "null" \in DOMAIN d THEN <<"n","u","l","l">>
    ELSE IF "list" \in DOMAIN d THEN <<"[">> \o DumpItems(d.list) \o <<"]">>
    ELSE <<"{">> \o DumpMembers(d.dict) \o <<"}">>

DumpItems(l) ==
    IF l = <<>> THEN <<>>
    ELSE JsonDumps(l[1]) \o (IF Len(l) = 1 THEN <<>> ELSE <<",">> \o DumpItems(Tail(l)))

DumpMembers(m) ==
    IF m = <<>> THEN <<>>
    ELSE <<"\"">> \o m[1][1] \o <<"\"", ":">> \o JsonDumps(m[1][2])
         \o (IF Len(m) = 1 THEN <<>> ELSE <<",">> \o DumpMembers(Tail(m)))

SchemesAB == [list |-> <<[str |-> <<"a">>], [str |-> <<"b">>]>>]

\* documents a tool may print
SampleDocs ==
    << [dict |-> << <<<<"d","e","v","i","c","e","s">>, [list |-> <<>>]>> >>],
       [dict |-> << <<<<"p","r","o","j","e","c","t">>, [dict |-> << <<<<"s","c","h","e","m","e","s">>, SchemesAB>> >>]>> >>],
       [dict |-> << <<<<"p","r","o","j","e","c","t">>, [dict |-> <<>>]>> >>],
       [dict |-> << <<<<"p","r","o","j","e","c","t">>, [list |-> <<>>]>> >>],
       [dict |-> << <<<<"s","c","h","e","m","e","s">>, [list |-> <<[str |-> <<"a">>]>>]>> >>],
       [list |-> <<[int |-> 1], [str |-> <<"a">>]>>],
       [str |-> <<"a">>],
       [int |-> 12],
       [null |-> TRUE] >>

\* what xcodebuild_list_schemes makes of each of them:
\* data.get('project', {}).get('schemes', [])
SampleSchemes ==
    << [kind |-> "return", value |-> [list |-> <<>>]],
       [kind |-> "return", value |-> SchemesAB],
       [kind |-> "return", value |-> [list |-> <<>>]],
       [kind |-> "raise", exc |-> "AttributeError"],
       [kind |-> "return", value |-> [list |-> <<>>]],
       [kind |-> "raise", exc |-> "AttributeError"],
       [kind |-> "raise", exc |-> "AttributeError"],
       [kind |-> "raise", exc |-> "AttributeError"],
       [kind |-> "raise", exc |-> "AttributeError"] >>

\* a text cut short: a proper prefix of a sample that is no number
Truncated(t) ==
    \E i \in 1..Len(SampleDocs) :
        /\ "int" \notin DOMAIN SampleDocs[i]
        /\ Len(t) < Len(JsonDumps(SampleDocs[i]))
        /\ IsPrefix(t, JsonDumps(SampleDocs[i]))

\* a decode failure: not the process failure, and the process is not run again
DecodeFailure ==
    /\ pc = "Failed"
    /\ outcome = Some([kind |-> "raise", exc |-> "JSONDecodeError"])
    /\ spawned = 1

\* C4 as stated: every JSON-shape operation, xcodebuild_list_schemes included,
\* returns the decoded document when stdout is well formed, and fails with a
\* decode failure when it is malformed.
C4_ResultIsDecodedDocument ==
    (ExitedWith0 /\ op \in JsonOps) =>
        /\ \A i \in 1..Len(SampleDocs) :
               proc[1].out = JsonDumps(SampleDocs[i]) => Returned(SampleDocs[i])
        /\ Truncated(proc[1].out) => DecodeFailure

\* C4, amended: list_devices, xctrace list_devices, list_templates and
\* xcodebuild_list_sdks return the decoded document; xcodebuild_list_schemes
\* returns the document's project.schemes entry (an empty list when either key is
\* missing) and fails with an AttributeError when the document or its project
\* entry is no object; malformed stdout is a decode failure for all five, never
\* the "Failed to ..." process failure, and nothing is run again.
C4_JsonShape ==
    (ExitedWith0 /\ op \in JsonOps) =>
        /\ \A i \in 1..Len(SampleDocs) :
               proc[1].out = JsonDumps(SampleDocs[i]) =>
                   /\ op \in DocumentOps => Returned(SampleDocs[i])
                   /\ op = "xcrun_list_schemes" => outcome = Some(SampleSchemes[i])
        /\ proc[1].out = <<"{"," ","\"","a","\"",":","1",",","\"","a","\"",":","2","}","\n">> /\ op \in DocumentOps =>
               Returned([dict |-> << <<<<"a">>, [int |-> 2]>> >>])
        /\ Truncated(proc[1].out) => DecodeFailure
        /\ proc[1].out \in {<<"{","}","a">>, <<"[","1",",","]">>} => DecodeFailure
        /\ pc = "Failed" =>
               /\ outcome[1].exc \in {"JSONDecodeError", "AttributeError"}
               /\ outcome[1].exc = "AttributeError" => op = "xcrun_list_schemes"
               /\ spawned = 1

C4_Witness ==
    /\ op = "xcrun_list_schemes"
    /\ ExitedWith0
    /\ proc[1].out = <<"{","\"","p","r","o","j","e","c","t","\"",":","{","\"","s","c","h","e","m","e","s","\"",":","[","\"","a","\"",",","\"","b","\"","]","}","}">>
    /\ Returned(SchemesAB)

LineOps ==
    {"xcrun_swift_symbols", "xcrun_otool_headers", "xcrun_otool_libraries", "xcrun_nm_symbols"}

\* t without one final "\n"
ChopNewline(t) ==
    IF t # <<>> /\ t[Len(t)] = "\n" THEN SubSeq(t, 1, Len(t) - 1) ELSE t

\* C5: with exit status 0 a line-list operation returns the lines of stdout in
\* order: none for an empty stdout, ["a","b"] for "a\nb\n" (no trailing empty
\* element), and an empty line between two lines stays as an empty string.
C5_LineList ==
    (ExitedWith0 /\ op \in LineOps) =>
        /\ pc = "Succeeded"
        /\ LET lines == outcome[1].value
               t == proc[1].out
           IN  /\ t = <<>> => lines = <<>>
               /\ t = <<"a","\n","b","\n">> => lines = <<<<"a">>, <<"b">>>>
               /\ t = <<"a","\n","\n","b">> => lines = <<<<"a">>, <<>>, <<"b">>>>
               /\ \A k \in 1..Len(lines) : \A c \in 1..Len(lines[k]) :
                      lines[k][c] \notin {"\n", "\r", "\f"}
               /\ (\A c \in 1..Len(t) : t[c] \notin {"\r", "\f"}) =>
                      Join(<<"\n">>, lines) = ChopNewline(t)

C5_Witness ==
    /\ op = "xcrun_nm_symbols"
    /\ ExitedWith0
    /\ proc[1].out = <<"a","\n","b","\n">>
    /\ Returned(<<<<"a">>, <<"b">>>>)

Has(vector, token) == \E i \in 1..Len(vector) : vector[i] = token

\* the required arguments of both record operations
RecordPrefix ==
    <<<<"x","c","t","r","a","c","e">>, <<"r","e","c","o","r","d">>, <<"-","-","t","e","m","p","l","a","t","e">>, args.template, <<"-","-","d","e","v","i","c","e">>, args.device_id,
      <<"-","-","t","a","r","g","e","t">>, args.app_bundle_id, <<"-","-","o","u","t","p","u","t">>, args.output_path>>

\* C6: an optional parameter that is omitted puts no token into the argument
\* vector: none of --time-limit, --template-option, --launch-args, --setenv,
\* -destination for the parameters left out, and with every optional parameter
\* left out the vector is the fixed required prefix.
C6_OmittedContributesNothing ==
    /\ op = "xctrace_record" =>
           /\ args.time_limit = None => ~Has(argv, <<"-","-","t","i","m","e","-","l","i","m","i","t">>) /\ argv = RecordPrefix
    /\ op = "xctrace_record_advanced" =>
           /\ args.time_limit = None => ~Has(argv, <<"-","-","t","i","m","e","-","l","i","m","i","t">>)
           /\ args.template_options = None => ~Has(argv, <<"-","-","t","e","m","p","l","a","t","e","-","o","p","t","i","o","n">>)
           /\ args.launch_args = None => ~Has(argv, <<"-","-","l","a","u","n","c","h","-","a","r","g","s">>)
           /\ args.env_vars = None => ~Has(argv, <<"-","-","s","e","t","e","n","v">>)
           /\ (/\ args.time_limit = None
               /\ args.template_options = None
               /\ args.launch_args = None
               /\ args.env_vars = None) => argv = RecordPrefix
    /\ op = "xctrace_attach_process" =>
           /\ args.time_limit = None =>
                  /\ ~Has(argv, <<"-","-","t","i","m","e","-","l","i","m","i","t">>)
                  /\ argv = <<<<"x","c","t","r","a","c","e">>, <<"a","t","t","a","c","h">>, <<"-","-","p","i","d">>, IntToStr(args.pid),
                              <<"-","-","t","e","m","p","l","a","t","e">>, args.template, <<"-","-","o","u","t","p","u","t">>, args.output_path>>
    /\ op = "xcrun_build" =>
           /\ args.destination = None =>
                  /\ ~Has(argv, <<"-","d","e","s","t","i","n","a","t","i","o","n">>)
                  /\ argv = <<<<"x","c","r","u","n">>, <<"x","c","o","d","e","b","u","i","l","d">>, <<"-","p","r","o","j","e","c","t">>, args.project_path,
                              <<"-","s","c","h","e","m","e">>, args.scheme,
                              <<"-","c","o","n","f","i","g","u","r","a","t","i","o","n">>, Default(args.configuration, <<"D","e","b","u","g">>),
                              <<"-","s","d","k">>, Default(args.sdk, <<"i","p","h","o","n","e","s","i","m","u","l","a","t","o","r">>)>>

C6_Witness ==
    /\ op = "xctrace_record_advanced"
    /\ pc = "Running"
    /\ args.time_limit = None
    /\ args.template_options = None
    /\ args.launch_args = Some(<<<<"-","a">>>>)
    /\ args.env_vars = None
    /\ argv = RecordPrefix \o <<<<"-","-","l","a","u","n","c","h","-","a","r","g","s">>, <<"-","a">>>>

\* the number of entries of an Optional[dict]
EntryCount(o) == IF o = None THEN 0 ELSE Len(o[1])

Count(vector, token) == Cardinality({i \in 1..Len(vector) : vector[i] = token})

\* C7: in record_with_options a template_options map of N entries adds exactly N
\* pairs "--template-option", "key=value" and an env_vars map of N entries
\* exactly N pairs "--setenv", "key=value", one per entry, in the map's order,
\* for every N >= 0.
C7_OnePairPerEntry ==
    op = "xctrace_record_advanced" =>
        LET n == EntryCount(args.template_options)
            m == EntryCount(args.env_vars)
            tl == IF args.time_limit \in {None, Some(0)} THEN 0 ELSE 2
            la == IF args.launch_args \in {None, Some(<<>>)} THEN 0 ELSE 2
            b1 == 10 + tl
            b2 == b1 + 2 * n + la
        IN  /\ Len(argv) = b2 + 2 * m
            /\ Count(argv, <<"-","-","t","e","m","p","l","a","t","e","-","o","p","t","i","o","n">>) = n
            /\ Count(argv, <<"-","-","s","e","t","e","n","v">>) = m
            /\ \A i \in 1..n :
                   /\ argv[b1 + 2 * i - 1] = <<"-","-","t","e","m","p","l","a","t","e","-","o","p","t","i","o","n">>
                   /\ argv[b1 + 2 * i] =
                          args.template_options[1][i][1] \o <<"=">>
                          \o args.template_options[1][i][2]
            /\ \A i \in 1..m :
                   /\ argv[b2 + 2 * i - 1] = <<"-","-","s","e","t","e","n","v">>
                   /\ argv[b2 + 2 * i] =
                          args.env_vars[1][i][1] \o <<"=">> \o args.env_vars[1][i][2]

C7_Witness ==
    /\ op = "xctrace_record_advanced"
    /\ pc = "Running"
    /\ args.time_limit = None
    /\ args.template_options = Some(<< <<<<"m">>, <<"w"," ","x">>>>, <<<<"k">>, <<"v">>>> >>)
    /\ args.launch_args = None
    /\ args.env_vars = Some(<< <<<<"k">>, <<"v">>>>, <<<<"m">>, <<"w"," ","x">>>> >>)
    /\ argv = RecordPrefix \o <<<<"-","-","t","e","m","p","l","a","t","e","-","o","p","t","i","o","n">>, <<"m","=","w"," ","x">>, <<"-","-","t","e","m","p","l","a","t","e","-","o","p","t","i","o","n">>, <<"k","=","v">>,
                                <<"-","-","s","e","t","e","n","v">>, <<"k","=","v">>, <<"-","-","s","e","t","e","n","v">>, <<"m","=","w"," ","x">>>>

\* the tools that return stdout trimmed
TrimmedOps == {"get_sdk_path", "get_sdk_version", "get_sdk_platform_path", "find_developer_tool"}

\* the tools that return stdout under a heading
HeadedOps == {"xcrun_build", "xcrun_validate_app", "xcrun_upload_app"}

\* C8 as stated: each of these plain-text operations returns stdout with the
\* surrounding whitespace trimmed.
C8_ReturnsTrimmedStdout ==
    (ExitedWith0 /\ op \in TrimmedOps \cup HeadedOps) => Returned(Strip(proc[1].out))

AllWhitespace(t) == \A c \in 1..Len(t) : t[c] \in {" ", "\t", "\n", "\r", "\f"}

\* v is t without the whitespace around it
IsTrimOf(v, t) ==
    /\ v # <<>> => ~AllWhitespace(<<v[1]>>) /\ ~AllWhitespace(<<v[Len(v)]>>)
    /\ \E i \in 0..Len(t) : \E j \in i..Len(t) :
           /\ SubSeq(t, i + 1, j) = v
           /\ AllWhitespace(SubSeq(t, 1, i))
           /\ AllWhitespace(SubSeq(t, j + 1, Len(t)))

Heading(o) ==
    CASE o = "xcrun_build" -> <<"B","u","i","l","d"," ","c","o","m","p","l","e","t","e","d",":","\n">>
      [] o = "xcrun_validate_app" -> <<"A","p","p"," ","v","a","l","i","d","a","t","i","o","n"," ","c","o","m","p","l","e","t","e","d",":","\n">>
      [] o = "xcrun_upload_app" -> <<"A","p","p"," ","u","p","l","o","a","d"," ","c","o","m","p","l","e","t","e","d",":","\n">>

\* C8, amended: get_sdk_path, get_sdk_version, get_sdk_platform_path and
\* find_developer_tool return stdout with the surrounding whitespace trimmed;
\* the build, app validation and app upload operations return a fixed heading
\* line followed by stdout as it is, untrimmed.
C8_TrimmedOrHeaded ==
    ExitedWith0 =>
        /\ op \in TrimmedOps => pc = "Succeeded" /\ IsTrimOf(outcome[1].value, proc[1].out)
        /\ op \in HeadedOps => Returned(Heading(op) \o proc[1].out)

C8_Witness ==
    /\ op = "xcrun_build"
    /\ ExitedWith0
    /\ proc[1].out = <<" ","a","\n">>
    /\ Returned(<<"B","u","i","l","d"," ","c","o","m","p","l","e","t","e","d",":","\n"," ","a","\n">>)

\* C9: no operation partially succeeds: a completed call has exactly one
\* outcome, a value or a failure, never a value when the process exited non-zero;
\* also for document_template (the process succeeds, then the write fails) and
\* analyze_trace (the directory is created, then the process fails).
C9_OneOutcome ==
    /\ pc \in {"Idle", "Running"} => outcome = None
    /\ Done =>
           /\ outcome # None
           /\ \/ /\ pc = "Succeeded"
                 /\ DOMAIN outcome[1] = {"kind", "value"}
                 /\ outcome[1].kind = "return"
              \/ /\ pc = "Failed"
                 /\ DOMAIN outcome[1] \in {{"kind", "exc"}, {"kind", "exc", "msg"}}
                 /\ outcome[1].kind = "raise"
    /\ ExitedNon0 => pc = "Failed"
    /\ (op = "xctrace_document" /\ ExitedWith0) =>
           \/ /\ pc = "Succeeded"
              /\ effects = <<[do |-> "open_w", path |-> args.output_path],
                             [do |-> "write", path |-> args.output_path,
                              data |-> proc[1].out]>>
           \/ /\ pc = "Failed"
              /\ \A k \in 1..Len(effects) : effects[k].do # "write"
    /\ (op = "xctrace_analyze" /\ ExitedNon0) =>
           pc = "Failed" /\ effects = <<[do |-> "makedirs", path |-> args.output_dir]>>

C9_Witness ==
    /\ op = "xctrace_document"
    /\ ExitedWith0
    /\ effects = <<[do |-> "open_w", path |-> args.output_path]>>
    /\ FailedWith(<<"F","a","i","l","e","d"," ","t","o"," ","w","r","i","t","e"," ","d","o","c","u","m","e","n","t","a","t","i","o","n",":"," ","P","e","r","m","i","s","s","i","o","n"," ","d","e","n","i","e","d">>)

\* C10 as stated: every request runs exactly one external process and has
\* exactly one invocation result.
C10_ExactlyOneProcess == Done => spawned = 1 /\ Exited

C10_Counts ==
    /\ spawned <= 1
    /\ pc = "Idle" => spawned = 0 /\ ~Exited
    /\ pc = "Running" => spawned = 1 /\ ~Exited
    /\ Done =>
           /\ spawned = 1 <=> Exited
           /\ spawned = 0 <=>
                  \/ op = "get_mcpxcode"
                  \/ op = "xctrace_analyze" /\ effects = <<>>

C10_Step ==
    /\ pc = "Running" => pc' \in {"Succeeded", "Failed"} /\ spawned' = spawned
    /\ Done => pc' = "Idle"

\* C10, amended: a request runs at most one external process, and exactly one
\* unless it is get_mcpxcode (which runs none) or analyze_trace failing to create
\* its directory; from Running a call moves once to Succeeded or to Failed, that
\* state is final, and a failed process is never started again.
C10_AtMostOneProcess == [](C10_Counts) /\ [][C10_Step]_vars

C10_Witness ==
    /\ pc = "Failed"
    /\ ExitedNon0
    /\ spawned = 1
    /\ op = "run_tool_with_sdk"

\* C11 as stated: spawning its process is the only side effect of an operation;
\* none creates, writes or changes a file or directory, before or after.
C11_NoOtherSideEffect == effects = <<>>

\* C11, amended: apart from spawning its process an operation touches nothing,
\* with two exceptions: analyze_trace creates its output directory before the
\* process starts (the directory stays when the process fails), and
\* document_template, once its process has exited 0, opens its output path for
\* writing and writes stdout there.
C11_OnlyNamedEffects ==
    /\ op \notin {"xctrace_document", "xctrace_analyze"} => effects = <<>>
    /\ op = "xctrace_analyze" =>
           IF spawned = 0 THEN effects = <<>>
           ELSE effects = <<[do |-> "makedirs", path |-> args.output_dir]>>
    /\ op = "xctrace_document" =>
           IF ExitedWith0
           THEN \E k \in 0..2 :
                    effects = SubSeq(<<[do |-> "open_w", path |-> args.output_path],
                                       [do |-> "write", path |-> args.output_path,
                                        data |-> proc[1].out]>>, 1, k)
           ELSE effects = <<>>

C11_Witness ==
    /\ op = "xctrace_analyze"
    /\ ExitedNon0
    /\ pc = "Failed"
    /\ effects = <<[do |-> "makedirs", path |-> <<"/","t","/","o","u","t">>]>>

\* each call's vector and outcome are those of the same call handled alone
C12_OwnInputs ==
    \A i \in 1..MaxCalls :
        /\ (pc[i] = "Running" \/ proc[i] # None) => argv[i] = CmdFor(op[i], args[i])
        /\ proc[i] # None =>
               /\ pc[i] \in {"Succeeded", "Failed"}
               /\ outcome[i] = Some(Handle(op[i], args[i], proc[i][1].p, proc[i][1].io))
        /\ (pc[i] \in {"Succeeded", "Failed"} /\ proc[i] = None) =>
               op[i] = "xctrace_analyze" /\ outcome[i] = Some(Uncaught("OSError"))
        /\ pc[i] \in {"Idle", "Building", "Running"} => outcome[i] = None /\ proc[i] = None

\* a step of one call leaves everything the other calls hold as it is
C12_OthersUntouched ==
    \A i \in 1..MaxCalls :
        pc'[i] = pc[i] =>
            /\ op'[i] = op[i]
            /\ args'[i] = args[i]
            /\ argv'[i] = argv[i]
            /\ spawned'[i] = spawned[i]
            /\ proc'[i] = proc[i]
            /\ outcome'[i] = outcome[i]

TimedOps == {"xctrace_record", "xctrace_record_advanced", "xctrace_attach_process"}

\* the vector of the current call had it been made without a time limit
WithoutTimeLimit ==
    CASE op = "xctrace_record" ->
             record_cmd(args.template, args.device_id, args.app_bundle_id, args.output_path,
                        None)
      [] op = "xctrace_record_advanced" ->
             record_with_options_cmd(args.template, args.device_id, args.app_bundle_id,
                                     args.output_path, None, args.template_options,
                                     args.launch_args, args.env_vars)
      [] op = "xctrace_attach_process" ->
             attach_cmd(args.pid, args.template, args.output_path, None)

\* the number of tokens before the place of --time-limit
BeforeTimeLimit == IF op = "xctrace_attach_process" THEN 8 ELSE 10

\* str(t) for the time limits tried
Decimal(t) == IF t = 120 THEN <<"1","2","0">> ELSE IF t = 0 - 5 THEN <<"-","5">> ELSE IntToStr(t)

\* C13: a time limit of 0 is treated as absent: record, record_with_options and
\* attach build the vector they build without a time limit, holding no
\* "--time-limit"; every non-zero time limit t adds exactly the two tokens
\* "--time-limit", str(t), right after the required arguments.
C13_ZeroTimeLimitIsAbsent ==
    op \in TimedOps =>
        LET n == BeforeTimeLimit
            bare == WithoutTimeLimit
        IN  /\ ~Has(bare, <<"-","-","t","i","m","e","-","l","i","m","i","t">>)
            /\ args.time_limit \in {None, Some(0)} => argv = bare
            /\ args.time_limit \notin {None, Some(0)} =>
                   argv = SubSeq(bare, 1, n)
                          \o <<<<"-","-","t","i","m","e","-","l","i","m","i","t">>, Decimal(args.time_limit[1])>>
                          \o SubSeq(bare, n + 1, Len(bare))

C13_Witness ==
    /\ op = "xctrace_attach_process"
    /\ pc = "Running"
    /\ args.time_limit = Some(0)
    /\ args.pid = 4321
    /\ argv = <<<<"x","c","t","r","a","c","e">>, <<"a","t","t","a","c","h">>, <<"-","-","p","i","d">>, <<"4","3","2","1">>, <<"-","-","t","e","m","p","l","a","t","e">>, args.template,
                <<"-","-","o","u","t","p","u","t">>, args.output_path>>

\* the number of tokens of the current record_with_options call that stand
\* before the place of --launch-args
BeforeLaunchArgs ==
    10 + (IF args.time_limit \in {None, Some(0)} THEN 0 ELSE 2)
       + 2 * EntryCount(args.template_options)

\* the K arguments with one space between neighbours
SpaceJoined(l) ==
    IF Len(l) = 1 THEN l[1]
    ELSE IF Len(l) = 2 THEN l[1] \o <<" ">> \o l[2]
    ELSE l[1] \o <<" ">> \o l[2] \o <<" ">> \o l[3]

\* C14: in record_with_options a non-empty launch_args list of K arguments adds
\* exactly two tokens, "--launch-args" and the K arguments joined by single
\* spaces, after the --time-limit and --template-option tokens and before the
\* --setenv tokens; an empty list adds nothing.
C14_LaunchArgsJoined ==
    op = "xctrace_record_advanced" =>
        LET b == BeforeLaunchArgs
            m == EntryCount(args.env_vars)
        IN  IF args.launch_args \in {None, Some(<<>>)}
            THEN /\ ~Has(argv, <<"-","-","l","a","u","n","c","h","-","a","r","g","s">>)
                 /\ Len(argv) = b + 2 * m
            ELSE /\ Len(argv) = b + 2 + 2 * m
                 /\ Count(argv, <<"-","-","l","a","u","n","c","h","-","a","r","g","s">>) = 1
                 /\ argv[b + 1] = <<"-","-","l","a","u","n","c","h","-","a","r","g","s">>
                 /\ argv[b + 2] = SpaceJoined(args.launch_args[1])
                 /\ \A k \in 1..b : argv[k] \notin {<<"-","-","l","a","u","n","c","h","-","a","r","g","s">>, <<"-","-","s","e","t","e","n","v">>}
                 /\ \A k \in (b + 3)..Len(argv) :
                        argv[k] \notin {<<"-","-","t","i","m","e","-","l","i","m","i","t">>, <<"-","-","t","e","m","p","l","a","t","e","-","o","p","t","i","o","n">>}
                 /\ \A k \in 1..m : argv[b + 2 * k + 1] = <<"-","-","s","e","t","e","n","v">>

C14_Witness ==
    /\ op = "xctrace_record_advanced"
    /\ pc = "Running"
    /\ args.time_limit = Some(120)
    /\ args.template_options = Some(<< <<<<"k">>, <<"v">>>> >>)
    /\ args.launch_args = Some(<<<<"-","a">>, <<"b">>>>)
    /\ args.env_vars = Some(<< <<<<"m">>, <<"w"," ","x">>>> >>)
    /\ argv = RecordPrefix \o <<<<"-","-","t","i","m","e","-","l","i","m","i","t">>, <<"1","2","0">>, <<"-","-","t","e","m","p","l","a","t","e","-","o","p","t","i","o","n">>, <<"k","=","v">>,
                                <<"-","-","l","a","u","n","c","h","-","a","r","g","s">>, <<"-","a"," ","b">>, <<"-","-","s","e","t","e","n","v">>, <<"m","=","w"," ","x">>>>

\* what document_template has done to its output file when all went well
Written ==
    <<[do |-> "open_w", path |-> args.output_path],
      [do |-> "write", path |-> args.output_path, data |-> proc[1].out]>>

C15_FileFollowsProcess ==
    op = "xctrace_document" =>
        /\ ~ExitedWith0 => effects = <<>>
        /\ ExitedNon0 =>
               /\ FailedWithException
               /\ IsPrefix(<<"F","a","i","l","e","d"," ","t","o"," ","d","o","c","u","m","e","n","t"," ","t","e","m","p","l","a","t","e",":"," ">>, outcome[1].msg)
        /\ ExitedWith0 =>
               \/ /\ effects = Written
                  /\ Returned(<<"S","u","c","c","e","s","s","f","u","l","l","y"," ","g","e","n","e","r","a","t","e","d"," ","d","o","c","u","m","e","n","t","a","t","i","o","n"," ","f","o","r"," ","t","e","m","p","l","a","t","e"," ">>
                              \o args.template \o <<" ","t","o"," ">> \o args.output_path)
               \/ /\ effects \in {<<>>, SubSeq(Written, 1, 1)}
                  /\ FailedWithException
                  /\ IsPrefix(<<"F","a","i","l","e","d"," ","t","o"," ","w","r","i","t","e"," ","d","o","c","u","m","e","n","t","a","t","i","o","n">>, outcome[1].msg)

\* the file is touched in the step in which the process ends with status 0 only
C15_TouchedOnSuccessOnly ==
    (op' = "xctrace_document" /\ effects' # effects) =>
        /\ pc = "Running"
        /\ proc'[1].exit = 0

\* C15: document_template writes its output file only after its process has
\* exited with status 0, and then writes exactly the untrimmed stdout; when the
\* process exits non-zero the file is never opened or changed, and when the write
\* fails the call fails with a "Failed to write documentation" error, not with
\* the process-failure error.
C15_WritesAfterSuccess == [](C15_FileFollowsProcess) /\ [][C15_TouchedOnSuccessOnly]_vars

C15_Witness ==
    /\ op = "xctrace_document"
    /\ ExitedWith0
    /\ proc[1].out = <<" ","a","\n">>
    /\ effects = <<[do |-> "open_w", path |-> <<"o">>],
                   [do |-> "write", path |-> <<"o">>, data |-> <<" ","a","\n">>]>>
    /\ pc = "Succeeded"
====
